---- MODULE Spec2Model ----
(***************************************************************************)
(* Ingestion, normalisation and roll-up of the school datasets:            *)
(*   - the per-dataset import tasks of the routers (process_*_file),       *)
(*   - the batch ETL pipeline (ETLPipeline.run_full_etl),                   *)
(*   - the in-memory DatasetParser and its hierarchical aggregation.       *)
(* Three specifications share the variables:                               *)
(*   Spec        two import tasks of one router running on one collection  *)
(*   SpecETL     one run of the batch ETL pipeline                         *)
(*   SpecParser  DatasetParser.parse_excel calls, then get_aggregated_data *)
(***************************************************************************)
EXTENDS Integers, Sequences, FiniteSets, TLC

\* Rows iterated by one import task / one parsed file.
MaxRows == 2

(***************************************************************************)
(* Cells of a spreadsheet row.  A text cell is the sequence of its         *)
(* characters; NaN is pandas' missing value.  A numeric cell is a record.  *)
(***************************************************************************)
NaN == <<"NaN">>

Num(n) == [t |-> "num", v |-> n]
Text == [t |-> "text", v |-> 0]
Inf == [t |-> "inf", v |-> 0]
NaNCell == [t |-> "nan", v |-> 0]

notna(cell) == cell # NaN

RECURSIVE lstrip(_)
lstrip(s) == IF s # <<>> /\ Head(s) = " " THEN lstrip(Tail(s)) ELSE s

RECURSIVE rstrip(_)
rstrip(s) ==
    IF s # <<>> /\ s[Len(s)] = " " THEN rstrip(SubSeq(s, 1, Len(s) - 1)) ELSE s

strip(s) == rstrip(lstrip(s))

\* str.split('.')[0]
RECURSIVE split_dot_0(_)
split_dot_0(s) ==
    IF s = <<>> \/ Head(s) = "." THEN <<>>
    ELSE <<Head(s)>> \o split_dot_0(Tail(s))

HasDot(s) == \E i \in 1..Len(s) : s[i] = "."

\* A text cell holding the characters s, a float cell given in tenths, and
\* None.
Str(s) == [t |-> "str", v |-> s]
Flt(tenths) == [t |-> "float", v |-> tenths]
None == [t |-> "none", v |-> 0]

\* pd.isna(val)
isna(val) == val.t \in { "nan", "none" }

DigitVal ==
    ("0" :> 0) @@ ("1" :> 1) @@ ("2" :> 2) @@ ("3" :> 3) @@ ("4" :> 4) @@
    ("5" :> 5) @@ ("6" :> 6) @@ ("7" :> 7) @@ ("8" :> 8) @@ ("9" :> 9)

IsDigit(c) == c \in DOMAIN DigitVal

\* The longest prefix of digits of s: re.match(r'^(\d+)', s)
RECURSIVE LeadingDigits(_)
LeadingDigits(s) ==
    IF s # <<>> /\ IsDigit(Head(s)) THEN <<Head(s)>> \o LeadingDigits(Tail(s)) ELSE <<>>

\* int(digits)
RECURSIVE DigitsToInt(_)
DigitsToInt(ds) ==
    IF ds = <<>> THEN 0
    ELSE DigitsToInt(SubSeq(ds, 1, Len(ds) - 1)) * 10 + DigitVal[ds[Len(ds)]]

startswith(s, prefix) ==
    Len(s) >= Len(prefix) /\ SubSeq(s, 1, Len(prefix)) = prefix

endswith(s, suffix) ==
    Len(s) >= Len(suffix) /\ SubSeq(s, Len(s) - Len(suffix) + 1, Len(s)) = suffix

\* str.lower(), over the letters the cells of the model use.
LowerCase ==
    ("N" :> "n") @@ ("O" :> "o") @@ ("Y" :> "y") @@ ("E" :> "e") @@ ("S" :> "s") @@
    ("I" :> "i") @@ ("F" :> "f") @@ ("A" :> "a")

lower(s) == [i \in 1..Len(s) |-> IF s[i] \in DOMAIN LowerCase THEN LowerCase[s[i]] ELSE s[i]]

\* float(s) of a text: blanks around it, a sign, digits with an optional
\* fraction and an optional exponent, or one of the words inf and nan.  The
\* result is [kind |-> "num", tenths |-> the value cut to one decimal],
\* [kind |-> "inf"], [kind |-> "nan"] or [kind |-> "fail"] (ValueError).
float_value(neg, ip, fp, ex) ==
    LET point == Len(ip) + DigitsToInt(ex) + 1
        digits == ip \o fp
        shifted == [i \in 1..point |-> IF i <= Len(digits) THEN digits[i] ELSE "0"]
        magnitude == DigitsToInt(shifted)
    IN  [kind |-> "num", tenths |-> IF neg THEN 0 - magnitude ELSE magnitude]

float_checked(neg, ip, fp, hasexp, ex, rest) ==
    IF (ip # <<>> \/ fp # <<>>) /\ (hasexp => ex # <<>>) /\ rest = <<>>
    THEN float_value(neg, ip, fp, ex)
    ELSE [kind |-> "fail", tenths |-> 0]

float_exponent(neg, ip, fp, hasexp, r2, ex) ==
    float_checked(neg, ip, fp, hasexp, ex,
                  IF hasexp THEN SubSeq(r2, Len(ex) + 2, Len(r2)) ELSE r2)

float_after_fraction(neg, ip, fp, r2, hasexp) ==
    float_exponent(neg, ip, fp, hasexp, r2,
                   IF hasexp THEN LeadingDigits(Tail(r2)) ELSE <<>>)

float_fraction(neg, ip, r1, hasdot, fp) ==
    float_after_fraction(neg, ip, fp,
                         IF hasdot THEN SubSeq(r1, Len(fp) + 2, Len(r1)) ELSE r1,
                         IF hasdot THEN Len(r1) >= Len(fp) + 2 /\ r1[Len(fp) + 2] \in { "e", "E" }
                         ELSE r1 # <<>> /\ Head(r1) \in { "e", "E" })

float_after_digits(neg, ip, r1, hasdot) ==
    float_fraction(neg, ip, r1, hasdot,
                   IF hasdot THEN LeadingDigits(Tail(r1)) ELSE <<>>)

float_digits(neg, u, ip) ==
    float_after_digits(neg, ip, SubSeq(u, Len(ip) + 1, Len(u)),
                       Len(u) > Len(ip) /\ u[Len(ip) + 1] = ".")

float_word(neg, u, word) ==
    IF word \in { <<"i", "n", "f">>, <<"i", "n", "f", "i", "n", "i", "t", "y">> }
    THEN [kind |-> "inf", tenths |-> 0]
    ELSE IF word = <<"n", "a", "n">> THEN [kind |-> "nan", tenths |-> 0]
    ELSE float_digits(neg, u, LeadingDigits(u))

float_signed(t, signed) ==
    float_word(signed /\ Head(t) = "-", IF signed THEN Tail(t) ELSE t,
               lower(IF signed THEN Tail(t) ELSE t))

float_stripped(t) == float_signed(t, t # <<>> /\ Head(t) \in { "-", "+" })

float_of_text(s) == float_stripped(strip(s))

\* float(val) of any cell that is not missing.
float_of(val) ==
    CASE val.t = "num" -> [kind |-> "num", tenths |-> val.v * 10]
      [] val.t = "float" -> [kind |-> "num", tenths |-> val.v]
      [] val.t = "inf" -> [kind |-> "inf", tenths |-> 0]
      [] val.t = "str" -> float_of_text(val.v)
      [] OTHER -> [kind |-> "fail", tenths |-> 0]

\* 0.0
Zero == [kind |-> "num", tenths |-> 0]

\* int(x) of a finite float in tenths: truncation towards zero.
trunc(tenths) == IF tenths >= 0 THEN tenths \div 10 ELSE 0 - ((0 - tenths) \div 10)

\* int(float(val)) with the exception caught: 0 unless the float is finite.
int_of_float(f) == IF f.kind = "num" THEN trunc(f.tenths) ELSE 0

\* float(val) with the exception caught: 0.0 when float() raised.
float_or_zero(f) == IF f.kind = "fail" THEN Zero ELSE f

(***************************************************************************)
(* Row normalisation of the routers.  The result is                        *)
(*   [kind |-> "skip"]   the row is passed over (continue),                *)
(*   [kind |-> "raise"]  an exception leaves the row's try block,          *)
(*   [kind |-> "rec"]    the record handed to the collection.              *)
(***************************************************************************)
Skip == [kind |-> "skip", udise |-> <<>>, val |-> 0]
Raise == [kind |-> "raise", udise |-> <<>>, val |-> 0]
Rec(u, v) == [kind |-> "rec", udise |-> u, val |-> v]

\* routers/aadhaar.py safe_int_val: int(float(val)), any exception swallowed.
safe_int_val(cell) == IF cell.t = "num" THEN cell.v ELSE 0

\* routers/aadhaar.py process_aadhaar_file, the body of the row loop.
aadhaar_row(row) ==
    LET udise == IF notna(row.udise) THEN strip(row.udise) ELSE <<>>
    IN  IF udise = <<>> \/ udise = <<"n", "a", "n">> THEN Skip
        ELSE Rec(IF HasDot(udise) THEN split_dot_0(udise) ELSE udise,
                 safe_int_val(row.val))

\* routers/apaar.py process_apaar_file, the body of the row loop:
\* int(cell) if pd.notna(cell) else 0 raises on text and on infinity.
apaar_row(row) ==
    LET udise == IF notna(row.udise) THEN strip(row.udise) ELSE <<>>
    IN  IF udise = <<>> THEN Skip
        ELSE IF row.val.t \in {"text", "inf"} THEN Raise
        ELSE Rec(udise, IF row.val.t = "num" THEN row.val.v ELSE 0)

(***************************************************************************)
(* The import tasks of one router (Spec).                                  *)
(*   target             the router whose collection is observed            *)
(*   coll               its collection, documents in insertion order       *)
(*   next_id            the next _id the store hands out                   *)
(*   pc[r]              where import task r stands                         *)
(*   df[r]              the rows task r has iterated so far                *)
(*   records_processed  the tasks' counters                                *)
(*   lost[r]            history: the documents task r's delete-all removed *)
(* The collection starts with what an earlier, completed import left.      *)
(***************************************************************************)
VARIABLES target, coll, next_id, pc, df, records_processed, lost

\* routers/auth.py, the password reset (SpecAuth): the user's stored
\* hashed_password, the password_resets collection in insertion order, the
\* clock in the unit of a token's exp claim, each confirm request's position
\* and arguments, and the tokens that have changed the password, in order.
VARIABLES hashed_password, password_resets, now, confirm, changed

authVars == <<hashed_password, password_resets, now, confirm, changed>>

taskVars == <<target, coll, next_id, pc, df, records_processed, lost>>

importVars == <<taskVars, authVars>>

\* The variables of the ETL pipeline, described with SpecETL below.
VARIABLES db, etl_pc, stats, log, loader

etlVars == <<db, etl_pc, stats, log, loader>>

\* The variables of the DatasetParser, described with SpecParser below.
VARIABLES schools_data, schools_order, last, uploaded, agg

parserVars == <<schools_data, schools_order, last, uploaded, agg>>

\* The last call of one of the helper functions (described with SpecFn
\* below): the function, its arguments and what it returned.
VARIABLES ret

fnVars == <<ret>>

vars == <<importVars, etlVars, parserVars, fnVars>>

Runs == {"r1", "r2"}
Routers == {"aadhaar", "apaar"}

Row(u, v) == [udise |-> u, val |-> v]

\* The rows an import task may meet.
ImportRows ==
    { Row(<<"1">>, Num(1)), Row(<<"1">>, Num(2)), Row(NaN, Num(1)),
      Row(<<"2">>, Text) }

Doc(i, u, v, r) == [id |-> i, udise |-> u, val |-> v, by |-> r]

\* What an earlier, completed import left behind.
OldContent == << Doc(0, <<"2">>, 2, "r0") >>

Range(s) == { s[i] : i \in 1..Len(s) }

\* A delete-all whose filter matches nothing.
delete_many_none(c) == c

\* db.<collection>.delete_many({})
delete_many(c) == <<>>

\* db.<collection>.insert_one(record)
insert_one(c, d) == Append(c, d)

\* db.<collection>.update_one({"udise_code": udise}, {"$set": record}, upsert=True)
update_one_upsert(c, d) ==
    IF \E i \in 1..Len(c) : c[i].udise = d.udise
    THEN LET k == CHOOSE i \in 1..Len(c) :
                      /\ c[i].udise = d.udise
                      /\ \A j \in 1..(i - 1) : c[j].udise # d.udise
         IN  [c EXCEPT ![k] = [d EXCEPT !.id = c[k].id]]
    ELSE Append(c, d)

\* The row loop body of the observed router.
normalize_row(t, row) == IF t = "aadhaar" THEN aadhaar_row(row) ELSE apaar_row(row)

\* The write of the observed router.
write_record(t, c, d) ==
    IF t = "aadhaar" THEN update_one_upsert(c, d) ELSE insert_one(c, d)

(***************************************************************************)
(* The password reset of routers/auth.py (SpecAuth).  One user exists.  A  *)
(* reset token is the JWT of its claims, so two tokens with the same       *)
(* claims are the same string; exp is a whole number of clock units.       *)
(***************************************************************************)
MaxClock == 2

MaxResets == 2

\* timedelta(hours=1) of create_reset_token, in clock units.
TokenLife == 1

Clients == { "c1", "c2" }

UserEmail == "user"

Emails == { UserEmail, "nobody" }

Passwords == { "p1", "p2" }

\* utils/auth.py get_password_hash
get_password_hash(password) == <<"bcrypt", password>>

\* utils/auth.py create_reset_token
create_reset_token(email, clock) ==
    [sub |-> email, exp |-> clock + TokenLife, type |-> "reset"]

\* utils/auth.py create_access_token: a token of the same key without the
\* reset type.
AccessToken == [sub |-> UserEmail, exp |-> MaxClock + TokenLife, type |-> "none"]

NoEmail == "None"

\* utils/auth.py verify_reset_token: jwt.decode raises on an expired token.
verify_reset_token(token, clock) ==
    IF token.exp < clock THEN NoEmail
    ELSE IF token.type # "reset" THEN NoEmail
    ELSE token.sub

\* db.password_resets.find_one({"token": token, "used": False}) finds a record.
find_unused(resets, token) ==
    \E i \in 1..Len(resets) : resets[i].token = token /\ ~resets[i].used

\* db.password_resets.update_one({"token": token}, {"$set": {"used": True}}):
\* the first record of that token.
mark_used(resets, token) ==
    [ i \in 1..Len(resets) |->
        IF /\ resets[i].token = token
           /\ \A j \in 1..(i - 1) : resets[j].token # token
        THEN [resets[i] EXCEPT !.used = TRUE]
        ELSE resets[i] ]

NoRequest == [pc |-> "idle"]

InitAuth ==
    /\ hashed_password = get_password_hash("p0")
    /\ password_resets = <<>>
    /\ now = 0
    /\ confirm = [c \in Clients |-> NoRequest]
    /\ changed = <<>>

\* Time passes.
tick ==
    /\ now < MaxClock
    /\ now' = now + 1
    /\ UNCHANGED <<hashed_password, password_resets, confirm, changed>>
    /\ UNCHANGED <<taskVars, etlVars, parserVars, fnVars>>

\* POST /password-reset-request
request_password_reset ==
    /\ \E email \in Emails :
          IF email = UserEmail
          THEN /\ Len(password_resets) < MaxResets
               /\ password_resets' =
                      Append(password_resets,
                             [email |-> email, token |-> create_reset_token(email, now),
                              used |-> FALSE])
          ELSE UNCHANGED password_resets
    /\ UNCHANGED <<hashed_password, now, confirm, changed>>
    /\ UNCHANGED <<taskVars, etlVars, parserVars, fnVars>>

\* The tokens a client can present: those handed out, and an access token.
KnownTokens == { password_resets[i].token : i \in 1..Len(password_resets) } \cup { AccessToken }

\* POST /password-reset-confirm, up to its first await: verify_reset_token.
confirm_verify(c) ==
    /\ confirm[c].pc = "idle"
    /\ \E token \in KnownTokens, new_password \in Passwords :
          confirm' = [confirm EXCEPT ![c] =
              [ pc |-> IF verify_reset_token(token, now) = NoEmail THEN "rejected"
                       ELSE "find",
                token |-> token, new_password |-> new_password,
                email |-> verify_reset_token(token, now) ]]
    /\ UNCHANGED <<hashed_password, password_resets, now, changed>>
    /\ UNCHANGED <<taskVars, etlVars, parserVars, fnVars>>

\* reset_record = await db.password_resets.find_one(...)
confirm_find(c) ==
    /\ confirm[c].pc = "find"
    /\ confirm' = [confirm EXCEPT ![c].pc =
                      IF find_unused(password_resets, confirm[c].token)
                      THEN "update_user" ELSE "rejected"]
    /\ UNCHANGED <<hashed_password, password_resets, now, changed>>
    /\ UNCHANGED <<taskVars, etlVars, parserVars, fnVars>>

\* await db.users.update_one({"email": email}, {"$set": {"hashed_password": ...}})
confirm_update_user(c) ==
    /\ confirm[c].pc = "update_user"
    /\ hashed_password' = get_password_hash(confirm[c].new_password)
    /\ changed' = Append(changed, confirm[c].token)
    /\ confirm' = [confirm EXCEPT ![c].pc = "mark_used"]
    /\ UNCHANGED <<password_resets, now>>
    /\ UNCHANGED <<taskVars, etlVars, parserVars, fnVars>>

\* await db.password_resets.update_one(...); return
confirm_mark_used(c) ==
    /\ confirm[c].pc = "mark_used"
    /\ password_resets' = mark_used(password_resets, confirm[c].token)
    /\ confirm' = [confirm EXCEPT ![c].pc = "done"]
    /\ UNCHANGED <<hashed_password, now, changed>>
    /\ UNCHANGED <<taskVars, etlVars, parserVars, fnVars>>

NextAuth ==
    \/ tick
    \/ request_password_reset
    \/ \E c \in Clients :
          \/ confirm_verify(c)
          \/ confirm_find(c)
          \/ confirm_update_user(c)
          \/ confirm_mark_used(c)

\* The import tasks before a request.
InitImport ==
    /\ target \in Routers
    /\ coll = OldContent
    /\ next_id = 1
    /\ pc = [r \in Runs |-> "idle"]
    /\ df = [r \in Runs |-> <<>>]
    /\ records_processed = [r \in Runs |-> 0]
    /\ lost = [r \in Runs |-> <<>>]
    /\ InitAuth

\* A task that issues its delete-all before it reads the file, for
\* comparison.
read_excel_after_clear(r) ==
    /\ pc[r] = "idle"
    /\ \E ok \in BOOLEAN : pc' = [pc EXCEPT ![r] = IF ok THEN "clear" ELSE "failed"]
    /\ coll' = delete_many(coll)
    /\ lost' = [lost EXCEPT ![r] = coll]
    /\ UNCHANGED <<target, next_id, df, records_processed>>
    /\ UNCHANGED <<etlVars, parserVars, fnVars, authVars>>

\* pd.read_excel at the head of process_*_file; a failure is caught by the
\* outer except and ends the task.
read_excel(r) ==
    /\ pc[r] = "idle"
    /\ \E ok \in BOOLEAN : pc' = [pc EXCEPT ![r] = IF ok THEN "clear" ELSE "failed"]
    /\ UNCHANGED <<target, coll, next_id, df, records_processed, lost>>
    /\ UNCHANGED <<etlVars, parserVars, fnVars, authVars>>

\* await db.<collection>.delete_many({}); records_processed = 0
clear_existing(r) ==
    /\ pc[r] = "clear"
    /\ coll' = delete_many(coll)
    /\ lost' = [lost EXCEPT ![r] = coll]
    /\ pc' = [pc EXCEPT ![r] = "rows"]
    /\ records_processed' = [records_processed EXCEPT ![r] = 0]
    /\ UNCHANGED <<target, next_id, df>>
    /\ UNCHANGED <<etlVars, parserVars, fnVars, authVars>>

\* One iteration of "for _, row in df.iterrows()": try / record / write /
\* records_processed += 1, except: log and continue.
process_row(r) ==
    /\ pc[r] = "rows"
    /\ Len(df[r]) < MaxRows
    /\ \E row \in ImportRows :
         LET n == normalize_row(target, row)
         IN  /\ df' = [df EXCEPT ![r] = Append(@, row)]
             /\ IF n.kind = "rec"
                THEN /\ coll' = write_record(target, coll, Doc(next_id, n.udise, n.val, r))
                     /\ next_id' = next_id + 1
                     /\ records_processed' = [records_processed EXCEPT ![r] = @ + 1]
                ELSE UNCHANGED <<coll, next_id, records_processed>>
    /\ UNCHANGED <<target, pc, lost>>
    /\ UNCHANGED <<etlVars, parserVars, fnVars, authVars>>

\* The iterator is exhausted: "import completed" is logged.
import_completed(r) ==
    /\ pc[r] = "rows"
    /\ pc' = [pc EXCEPT ![r] = "done"]
    /\ UNCHANGED <<target, coll, next_id, df, records_processed, lost>>
    /\ UNCHANGED <<etlVars, parserVars, fnVars, authVars>>

\* The task stops at one of its awaits (the process is killed, the task is
\* cancelled): before the delete-all has run, or after it.
task_stops(r) ==
    /\ pc[r] \in {"clear", "rows"}
    /\ pc' = [pc EXCEPT ![r] = IF pc[r] = "clear" THEN "killed" ELSE "crashed"]
    /\ UNCHANGED <<target, coll, next_id, df, records_processed, lost>>
    /\ UNCHANGED <<etlVars, parserVars, fnVars, authVars>>

NextImport ==
    \E r \in Runs :
        \/ read_excel(r)
        \/ clear_existing(r)
        \/ process_row(r)
        \/ import_completed(r)
        \/ task_stops(r)

(***************************************************************************)
(* The batch ETL pipeline (SpecETL).                                       *)
(*   db        the store: collection name -> documents in insertion order  *)
(*   etl_pc    the statement of run_full_etl that runs next (its index);   *)
(*             0 once an exception has left run_full_etl, and past the     *)
(*             last statement once it has returned                         *)
(*   stats     self.stats: dataset -> number of records loaded             *)
(*   log       what the pipeline has printed: the steps begun and the      *)
(*             datasets loaded, in order                                   *)
(*   loader    the batch loop of etl_age_wise / etl_ctteacher (SpecBatch): *)
(*             its records, its position i and the insert_many calls made *)
(* The store starts with what an earlier ETL run left in every collection. *)
(***************************************************************************)

\* The ten dataset loaders, in the order run_full_etl awaits them.
Datasets ==
    << "aadhaar", "apaar", "teacher", "water_infra", "enrolment", "dropbox",
       "data_entry", "age_wise", "ctteacher", "classrooms_toilets" >>

DatasetSet == Range(Datasets)

\* The collection each loader writes.
CollectionOf(d) ==
    CASE d = "aadhaar" -> "aadhaar_analytics"
      [] d = "apaar" -> "apaar_analytics"
      [] d = "teacher" -> "teacher_analytics"
      [] d = "water_infra" -> "infrastructure_analytics"
      [] d = "enrolment" -> "enrolment_analytics"
      [] d = "dropbox" -> "dropbox_analytics"
      [] d = "data_entry" -> "data_entry_analytics"
      [] d = "age_wise" -> "age_enrolment"
      [] d = "ctteacher" -> "ctteacher_analytics"
      [] OTHER -> "classrooms_toilets"

\* clear_collections: the collections it empties.
Collections ==
    { "users", "districts", "blocks", "schools" } \cup { CollectionOf(d) : d \in DatasetSet }

\* run_full_etl with the summaries one statement early.
run_full_etl_early_summary ==
    << "clear_collections", "create_admin_user",
       "etl_aadhaar", "etl_apaar", "etl_teacher", "etl_water_infra", "etl_enrolment",
       "etl_dropbox", "etl_data_entry", "etl_age_wise", "etl_ctteacher",
       "create_districts_summary", "etl_classrooms_toilets",
       "create_blocks_summary", "print_summary" >>

\* run_full_etl: its awaited statements, in order.
run_full_etl ==
    << "clear_collections", "create_admin_user",
       "etl_aadhaar", "etl_apaar", "etl_teacher", "etl_water_infra", "etl_enrolment",
       "etl_dropbox", "etl_data_entry", "etl_age_wise", "etl_ctteacher",
       "etl_classrooms_toilets",
       "create_districts_summary", "create_blocks_summary", "print_summary" >>

\* A document of the store.  gen tells the run that wrote it.
EtlDoc(u, d, b, n, g) ==
    [udise |-> u, district_name |-> d, block_name |-> b, total_schools |-> n, gen |-> g]

OldEtlDoc == EtlDoc(<<"9">>, <<"O">>, <<"Z">>, 1, "old")

\* A row of a dataset file: the identifier, district and block cells.
EtlRow(u, d, b) == [udise |-> u, district |-> d, block |-> b]

EtlRows ==
    { EtlRow(u, d, b) : u \in { NaN, <<"1">>, <<"(", "1", ")">> },
                        d \in { NaN, <<"D">> },
                        b \in { NaN, <<"A">>, <<"B">> } }

RECURSIVE SeqsUpTo(_, _)
SeqsUpTo(S, n) ==
    IF n = 0 THEN { <<>> }
    ELSE LET shorter == SeqsUpTo(S, n - 1)
         IN  shorter \cup { Append(f, x) : f \in { g \in shorter : Len(g) = n - 1 }, x \in S }

\* etl_pipeline.py safe_str
etl_safe_str(cell) == IF cell = NaN THEN <<>> ELSE strip(cell)

\* etl_pipeline.py safe_int: every exception is swallowed.
etl_safe_int(val) ==
    IF isna(val) THEN 0
    ELSE IF val.t = "str" /\ (startswith(val.v, <<"1", "-">>) \/ lower(val.v) = <<"y", "e", "s">>)
    THEN 1
    ELSE IF val.t = "str" /\ (startswith(val.v, <<"2", "-">>) \/ lower(val.v) = <<"n", "o">>)
    THEN 0
    ELSE IF val.t = "str" /\ startswith(val.v, <<"(">>) /\ endswith(val.v, <<")">>) THEN 0
    ELSE IF val.t = "str" /\ LeadingDigits(val.v) # <<>> THEN DigitsToInt(LeadingDigits(val.v))
    ELSE int_of_float(float_of(val))

\* etl_pipeline.py safe_float: every exception is swallowed.
etl_safe_float(val) == IF isna(val) THEN Zero ELSE float_or_zero(float_of(val))

\* etl_pipeline.py is_placeholder_row over the row's leading cells
is_placeholder_row(row) ==
    \E cell \in { row.udise, row.district, row.block } :
        cell # NaN /\ cell # <<>> /\ Head(cell) = "(" /\ cell[Len(cell)] = ")"

\* etl_pipeline.py is_placeholder_row over row.values, any number of cells of
\* any kind: a string among the first five that starts with "(" and ends
\* with ")".
is_placeholder_values(values) ==
    \E i \in 1..Len(values) :
        /\ i <= 5
        /\ values[i].t = "str"
        /\ startswith(values[i].v, <<"(">>)
        /\ endswith(values[i].v, <<")">>)

\* routers/enrolment.py process_enrolment_file: the first row of a frame
\* that has one is dropped when str(df.iloc[0, 0]).strip() == '(1)'.
enrolment_skip_header(frame) ==
    IF frame[1][1].t = "str" /\ strip(frame[1][1].v) = <<"(", "1", ")">>
    THEN Tail(frame) ELSE frame

\* etl_pipeline.py read_excel_skip_placeholders
read_excel_skip_placeholders(file) ==
    LET keep(row) == ~is_placeholder_row(row) IN SelectSeq(file, keep)

\* etl_aadhaar: the records list, one record per row of the frame.
etl_aadhaar_records(rows) ==
    [ i \in 1..Len(rows) |->
        EtlDoc(etl_safe_str(rows[i].udise), etl_safe_str(rows[i].district),
               etl_safe_str(rows[i].block), 0, "new") ]

\* db.<collection>.insert_many(records), guarded by "if records:"
insert_many(c, records) == c \o records

\* No loop is running.
NoLoop == [pc |-> "idle"]

Step == IF etl_pc \in 1..Len(run_full_etl) THEN run_full_etl[etl_pc] ELSE "none"

Begun(what) == [ev |-> "begin", what |-> what]
Loaded(d) == [ev |-> "loaded", what |-> d]

InitETL ==
    /\ db = [c \in Collections |-> << OldEtlDoc >>]
    /\ etl_pc = 1
    /\ stats = << >>
    /\ log = << >>
    /\ loader = NoLoop

clear_collections ==
    /\ Step = "clear_collections"
    /\ db' = [c \in Collections |-> delete_many(db[c])]
    /\ etl_pc' = etl_pc + 1
    /\ log' = Append(log, Begun("clear_collections"))
    /\ UNCHANGED stats
    /\ UNCHANGED <<importVars, parserVars, fnVars, loader>>

create_admin_user ==
    /\ Step = "create_admin_user"
    /\ db' = [db EXCEPT !["users"] = insert_one(@, EtlDoc(<<"a">>, <<>>, <<>>, 0, "new"))]
    /\ etl_pc' = etl_pc + 1
    /\ log' = Append(log, Begun("create_admin_user"))
    /\ UNCHANGED stats
    /\ UNCHANGED <<importVars, parserVars, fnVars, loader>>

\* One loader: it reads its file (an unreadable file raises out of
\* run_full_etl), builds its records, inserts them and records the count.
LoadDataset(d, readable, records) ==
    IF readable
    THEN /\ db' = [db EXCEPT ![CollectionOf(d)] =
                      IF records # <<>> THEN insert_many(@, records) ELSE @]
         /\ stats' = (d :> Len(records)) @@ stats
         /\ log' = log \o << Begun(d), Loaded(d) >>
         /\ etl_pc' = etl_pc + 1
    ELSE /\ etl_pc' = 0
         /\ log' = Append(log, Begun(d))
         /\ UNCHANGED <<db, stats>>

etl_aadhaar ==
    /\ Step = "etl_aadhaar"
    /\ \E readable \in BOOLEAN, file \in SeqsUpTo(EtlRows, MaxRows) :
          /\ readable \/ file = <<>>
          /\ LoadDataset("aadhaar", readable,
                         etl_aadhaar_records(read_excel_skip_placeholders(file)))
    /\ UNCHANGED <<importVars, parserVars, fnVars, loader>>

\* etl_apaar .. etl_classrooms_toilets
etl_dataset ==
    \E d \in DatasetSet \ {"aadhaar"} :
        /\ Step = "etl_" \o d
        /\ \E readable \in BOOLEAN :
              LoadDataset(d, readable, << EtlDoc(<<"1">>, <<"D">>, <<"A">>, 0, "new") >>)
    /\ UNCHANGED <<importVars, parserVars, fnVars, loader>>

RECURSIVE Distinct(_)
Distinct(q) ==
    IF q = <<>> THEN <<>>
    ELSE LET rest == Distinct(SubSeq(q, 1, Len(q) - 1))
         IN  IF q[Len(q)] \in Range(rest) THEN rest ELSE Append(rest, q[Len(q)])

\* {"$match": {"district_name": district}}, {"$sum": 1}
count_district(c, district) ==
    Cardinality({ i \in 1..Len(c) : c[i].district_name = district })

\* {"$match": {"block_name": block_name, "district_name": district}}, {"$sum": 1}
count_block(c, district, block_name) ==
    Cardinality({ i \in 1..Len(c) : c[i].block_name = block_name /\ c[i].district_name = district })

\* create_districts_summary: one document per non-empty district name of
\* aadhaar_analytics, total_schools = {"$sum": 1} over its records.
districts_summary(aadhaar) ==
    LET names == Distinct([ i \in 1..Len(aadhaar) |-> aadhaar[i].district_name ])
        wanted(n) == n # <<>>
        kept == SelectSeq(names, wanted)
    IN  [ i \in 1..Len(kept) |->
            EtlDoc(<<>>, kept[i], <<>>, count_district(aadhaar, kept[i]), "new") ]

create_districts_summary ==
    /\ Step = "create_districts_summary"
    /\ db' = [db EXCEPT !["districts"] = @ \o districts_summary(db["aadhaar_analytics"])]
    /\ etl_pc' = etl_pc + 1
    /\ log' = Append(log, Begun("create_districts_summary"))
    /\ UNCHANGED stats
    /\ UNCHANGED <<importVars, parserVars, fnVars, loader>>

\* create_blocks_summary: one document per (district, block) pair of
\* aadhaar_analytics whose block name is non-empty.
blocks_summary(aadhaar) ==
    LET pairs == Distinct([ i \in 1..Len(aadhaar) |->
                              <<aadhaar[i].district_name, aadhaar[i].block_name>> ])
        wanted(p) == p[2] # <<>>
        kept == SelectSeq(pairs, wanted)
    IN  [ i \in 1..Len(kept) |->
            EtlDoc(<<>>, kept[i][1], kept[i][2],
                   count_block(aadhaar, kept[i][1], kept[i][2]), "new") ]

create_blocks_summary ==
    /\ Step = "create_blocks_summary"
    /\ db' = [db EXCEPT !["blocks"] = @ \o blocks_summary(db["aadhaar_analytics"])]
    /\ etl_pc' = etl_pc + 1
    /\ log' = Append(log, Begun("create_blocks_summary"))
    /\ UNCHANGED stats
    /\ UNCHANGED <<importVars, parserVars, fnVars, loader>>

print_summary ==
    /\ Step = "print_summary"
    /\ etl_pc' = etl_pc + 1
    /\ log' = Append(log, Begun("print_summary"))
    /\ UNCHANGED <<db, stats>>
    /\ UNCHANGED <<importVars, parserVars, fnVars, loader>>

NextETL ==
    \/ clear_collections
    \/ create_admin_user
    \/ etl_aadhaar
    \/ etl_dataset
    \/ create_districts_summary
    \/ create_blocks_summary
    \/ print_summary

(***************************************************************************)
(* The DatasetParser (SpecParser).                                         *)
(*   schools_data   self.schools_data: identifier -> the merged school     *)
(*   schools_order  the insertion order of its keys (dict order)           *)
(*   last           the last call made on the parser: its arguments and    *)
(*                  what it returned                                       *)
(*   uploaded       the number of rows handed to the parser so far, which  *)
(*                  MaxUploaded caps                                       *)
(*   agg            get_aggregated_data's loop over the schools of one     *)
(*                  district, its rate sum in floating point (SpecAgg)     *)
(* Percentages are held in tenths of a percent (50.0 is 500).              *)
(***************************************************************************)
MaxUploaded == 3

Unknown == <<"Unknown">>

\* parser.py safe_str
safe_str(cell) == IF cell = NaN THEN <<>> ELSE strip(cell)

\* parser.py safe_int: int(float(val)) catching ValueError and TypeError only;
\* the OverflowError of an infinite value is not caught.
safe_int_raises(cell) == ~isna(cell) /\ float_of(cell).kind = "inf"

safe_int(cell) == IF isna(cell) THEN 0 ELSE int_of_float(float_of(cell))

\* parser.py safe_float: float(val), ValueError and TypeError caught.  The
\* result is a float: a number in tenths, inf or nan.
safe_float(val) == IF isna(val) THEN Zero ELSE float_or_zero(float_of(val))

\* round(x, 1) of the ratio n / d, in tenths, ties to even.
RoundRatio(n, d) ==
    LET q == (2 * n) \div (2 * d)
        twice == 2 * n - 2 * d * q
    IN  IF twice > d THEN q + 1
        ELSE IF twice < d THEN q
        ELSE IF q % 2 = 0 THEN q ELSE q + 1

\* round((num / den) * 100, 1) if den > 0 else 0.0
percentage(num, den) == IF den > 0 THEN RoundRatio(num * 1000, den) ELSE 0

\* dict.get(key, default)
Get(d, k, default) == IF k \in DOMAIN d THEN d[k] ELSE default

\* dict.update(fields)
Update(d, fields) == fields @@ d

\* ['no', 'not available', '0', 'false']
NoWater ==
    { <<"n", "o">>,
      <<"n", "o", "t", " ", "a", "v", "a", "i", "l", "a", "b", "l", "e">>,
      <<"0">>,
      <<"f", "a", "l", "s", "e">> }

\* The dataset types modelled, and a file name no keyword matches.
ParsedTypes == { "aadhaar", "apaar", "comparison", "water", "enrolment", "teacher" }

\* A row of a parsed file: the identifier, district and block cells, the
\* total (students or teachers) cell and the numerator cell.
PRow(u, d, b, t, n) == [udise |-> u, district |-> d, block |-> b, total |-> t, done |-> n]

\* A row of a drinking-water file: the identifier cell and the water cell.
WaterRow(u, w) == [udise |-> u, water |-> w]

ParserRows(dtype) ==
    CASE dtype = "aadhaar" ->
           { PRow(<<"1">>, <<"D">>, <<"A">>, Num(2), Num(1)),
             PRow(<<"2">>, <<"D">>, NaN, Num(0), Num(1)),
             PRow(NaN, <<"D">>, <<"A">>, Num(2), Num(1)),
             PRow(<<"1">>, <<"D">>, <<"A">>, Inf, Num(1)) }
      [] dtype = "apaar" ->
           { PRow(<<"1">>, NaN, NaN, Num(2), Num(2)),
             PRow(<<"2">>, NaN, NaN, Num(4), Num(1)),
             PRow(<<" ">>, NaN, NaN, Num(2), Num(1)) }
      [] dtype = "comparison" ->
           { PRow(<<"1">>, <<"E">>, <<"A">>, NaNCell, NaNCell),
             PRow(<<"3">>, NaN, <<"A">>, NaNCell, NaNCell) }
      [] dtype = "water" ->
           { WaterRow(<<"1">>, <<"N", "o">>),
             WaterRow(<<"2">>, NaN) }
      [] dtype = "enrolment" ->
           { PRow(<<"1">>, NaN, NaN, Num(3), NaNCell),
             PRow(<<"2">>, NaN, NaN, Text, NaNCell) }
      [] OTHER ->
           { PRow(<<"2">>, NaN, NaN, Num(1), NaNCell) }

\* The identifier of a row: the first udise column that is not missing,
\* through safe_str; empty when none.
row_udise(row) == IF row.udise # NaN THEN safe_str(row.udise) ELSE <<>>

\* Whether building the record of a row raises.
row_raises(dtype, row) ==
    CASE dtype = "aadhaar" -> safe_int_raises(row.total) \/ safe_int_raises(row.done)
      [] dtype = "apaar" -> safe_int_raises(row.total) \/ safe_int_raises(row.done)
      [] dtype \in { "comparison", "water" } -> FALSE
      [] OTHER -> safe_int_raises(row.total)

\* The fields a row folds into self.schools_data[udise].  The files carry one
\* total column and no school name; an enrolment file has no class, boy or
\* girl column.
row_fields(dtype, row) ==
    LET udise == row_udise(row)
        total == safe_int(row.total)
        done == safe_int(row.done)
    IN  CASE dtype = "water" ->
               [ udise_code |-> udise,
                 water_available |-> lower(safe_str(row.water)) \notin NoWater ]
          [] dtype = "aadhaar" ->
               [ udise_code |-> udise,
                 district_name |-> safe_str(row.district),
                 block_name |-> safe_str(row.block),
                 aadhaar_percentage |-> percentage(done, total),
                 total_students_aadhaar |-> total ]
          [] dtype = "apaar" ->
               [ apaar_percentage |-> percentage(done, total),
                 total_students_apaar |-> total ]
          [] dtype = "comparison" ->
               [ udise_code |-> udise,
                 district_name |-> safe_str(row.district),
                 block_name |-> safe_str(row.block) ]
          [] dtype = "enrolment" -> [ total_students |-> total, boys |-> 0, girls |-> 0 ]
          [] OTHER -> [ udise_code |-> udise, total_teachers |-> total ]

\* parse_<dtype>: the row loop, from the state st = [schools, order, records,
\* raised]; a raising row ends the loop with the exception.
RECURSIVE parse_rows(_, _, _)
parse_rows(dtype, rows, st) ==
    IF rows = <<>> THEN st
    ELSE LET row == Head(rows)
             udise == row_udise(row)
         IN  IF udise = <<>> THEN parse_rows(dtype, Tail(rows), st)
             ELSE IF row_raises(dtype, row) THEN [st EXCEPT !.raised = TRUE]
             ELSE LET old == IF udise \in DOMAIN st.schools THEN st.schools[udise] ELSE << >>
                      next ==
                        [ schools |-> (udise :> Update(old, row_fields(dtype, row))) @@ st.schools,
                          order |-> IF udise \in DOMAIN st.schools THEN st.order
                                    ELSE Append(st.order, udise),
                          records |-> Append(st.records, udise),
                          raised |-> FALSE ]
                  IN  parse_rows(dtype, Tail(rows), next)

Failure == [success |-> FALSE]

\* parse_excel: what it returns and what it leaves in self.schools_data.
parse_excel_outcome(schools, order, dtype, readable, rows) ==
    IF ~readable \/ dtype \notin ParsedTypes
    THEN [schools |-> schools, order |-> order, result |-> Failure]
    ELSE LET st == parse_rows(dtype, rows,
                              [schools |-> schools, order |-> order,
                               records |-> <<>>, raised |-> FALSE])
         IN  [ schools |-> st.schools, order |-> st.order,
               result |-> IF st.raised THEN Failure
                          ELSE [ success |-> TRUE, dataset_type |-> dtype,
                                 records_count |-> Len(st.records),
                                 records |-> st.records ] ]

NoCall == [call |-> "none"]

InitParser ==
    /\ schools_data = << >>
    /\ schools_order = << >>
    /\ last = NoCall
    /\ uploaded = 0
    /\ agg = NoLoop

parse_excel ==
    \E dtype \in ParsedTypes \cup {"unknown"}, readable \in BOOLEAN :
      \E rows \in SeqsUpTo(ParserRows(dtype), MaxRows) :
        /\ readable \/ rows = <<>>
        /\ dtype \in ParsedTypes \/ rows = <<>>
        /\ uploaded + Len(rows) <= MaxUploaded
        /\ uploaded' = uploaded + Len(rows)
        /\ LET out == parse_excel_outcome(schools_data, schools_order, dtype, readable, rows)
           IN  /\ schools_data' = out.schools
               /\ schools_order' = out.order
               /\ last' = [ call |-> "parse_excel", dtype |-> dtype, readable |-> readable,
                            rows |-> rows, result |-> out.result ]
        /\ UNCHANGED <<importVars, etlVars, fnVars, agg>>

\* get_aggregated_data: the accumulators a district and a block start from.
new_district(name) ==
    [ district_name |-> name, total_schools |-> 0, total_students |-> 0,
      total_teachers |-> 0, aadhaar_sum |-> 0, apaar_sum |-> 0, water_count |-> 0,
      toilet_count |-> 0, certified_count |-> 0, schools_with_data |-> 0 ]

new_block(district, block) ==
    [ district_name |-> district, block_name |-> block, total_schools |-> 0,
      total_students |-> 0, aadhaar_sum |-> 0, apaar_sum |-> 0, schools_with_data |-> 0 ]

\* A variant of district_add that counts a school only when it carries an
\* Aadhaar percentage.
district_add_with_data(d, school) ==
    LET aadhaar == Get(school, "aadhaar_percentage", 0)
        apaar == Get(school, "apaar_percentage", 0)
    IN  [ d EXCEPT
            !.total_schools = @ + (IF aadhaar # 0 THEN 1 ELSE 0),
            !.total_students = @ + Get(school, "total_students", 0),
            !.total_teachers = @ + Get(school, "total_teachers", 0),
            !.aadhaar_sum = @ + aadhaar,
            !.schools_with_data = @ + (IF aadhaar # 0 THEN 1 ELSE 0),
            !.apaar_sum = @ + apaar,
            !.water_count = @ + (IF Get(school, "water_available", FALSE) THEN 1 ELSE 0),
            !.toilet_count = @ + (IF Get(school, "toilets_available", FALSE) THEN 1 ELSE 0),
            !.certified_count = @ + (IF Get(school, "certified", FALSE) THEN 1 ELSE 0) ]

\* The "Aggregate" step for the district of one school.  A percentage of 0.0
\* is falsy, so adding it under the truthiness test or not is the same sum.
district_add(d, school) ==
    LET aadhaar == Get(school, "aadhaar_percentage", 0)
        apaar == Get(school, "apaar_percentage", 0)
    IN  [ d EXCEPT
            !.total_schools = @ + 1,
            !.total_students = @ + Get(school, "total_students", 0),
            !.total_teachers = @ + Get(school, "total_teachers", 0),
            !.aadhaar_sum = @ + aadhaar,
            !.schools_with_data = @ + (IF aadhaar # 0 THEN 1 ELSE 0),
            !.apaar_sum = @ + apaar,
            !.water_count = @ + (IF Get(school, "water_available", FALSE) THEN 1 ELSE 0),
            !.toilet_count = @ + (IF Get(school, "toilets_available", FALSE) THEN 1 ELSE 0),
            !.certified_count = @ + (IF Get(school, "certified", FALSE) THEN 1 ELSE 0) ]

\* The "Block aggregation" step for one school.
block_add(b, school) ==
    LET aadhaar == Get(school, "aadhaar_percentage", 0)
        apaar == Get(school, "apaar_percentage", 0)
    IN  [ b EXCEPT
            !.total_schools = @ + 1,
            !.total_students = @ + Get(school, "total_students", 0),
            !.aadhaar_sum = @ + aadhaar,
            !.schools_with_data = @ + (IF aadhaar # 0 THEN 1 ELSE 0),
            !.apaar_sum = @ + apaar ]

\* f"{district_name}|{block_name}"
block_key(district, block) == district \o <<"|">> \o block

\* The loop over self.schools_data.items(), in insertion order, from the
\* accumulators acc = [districts, dorder, blocks, border].
RECURSIVE aggregate(_, _, _)
aggregate(schools, order, acc) ==
    IF order = <<>> THEN acc
    ELSE LET school == schools[Head(order)]
             district_name == Get(school, "district_name", Unknown)
             block_name == Get(school, "block_name", Unknown)
             key == block_key(district_name, block_name)
         IN  IF district_name = <<>> \/ district_name = Unknown
             THEN aggregate(schools, Tail(order), acc)
             ELSE LET d == IF district_name \in DOMAIN acc.districts
                           THEN acc.districts[district_name]
                           ELSE new_district(district_name)
                      b == IF key \in DOMAIN acc.blocks
                           THEN acc.blocks[key]
                           ELSE new_block(district_name, block_name)
                      next ==
                        [ districts |-> (district_name :> district_add(d, school)) @@ acc.districts,
                          dorder |-> IF district_name \in DOMAIN acc.districts THEN acc.dorder
                                     ELSE Append(acc.dorder, district_name),
                          blocks |-> (key :> block_add(b, school)) @@ acc.blocks,
                          border |-> IF key \in DOMAIN acc.blocks THEN acc.border
                                     ELSE Append(acc.border, key) ]
                  IN  aggregate(schools, Tail(order), next)

\* "Calculate averages" for a district and for a block.
district_averages(d) ==
    [ aadhaar_percentage |-> IF d.schools_with_data > 0
                             THEN RoundRatio(d.aadhaar_sum, d.schools_with_data) ELSE 0,
      apaar_percentage |-> IF d.schools_with_data > 0
                           THEN RoundRatio(d.apaar_sum, d.schools_with_data) ELSE 0,
      water_percentage |-> percentage(d.water_count, d.total_schools),
      toilet_percentage |-> percentage(d.toilet_count, d.total_schools),
      data_entry_percentage |-> percentage(d.certified_count, d.total_schools),
      avg_ptr |-> IF d.total_teachers > 0
                  THEN RoundRatio(d.total_students * 10, d.total_teachers) ELSE 0 ] @@ d

block_averages(b) ==
    [ aadhaar_percentage |-> IF b.schools_with_data > 0
                             THEN RoundRatio(b.aadhaar_sum, b.schools_with_data) ELSE 0,
      apaar_percentage |-> IF b.schools_with_data > 0
                           THEN RoundRatio(b.apaar_sum, b.schools_with_data) ELSE 0 ] @@ b

aggregated_data(schools, order) ==
    LET acc == aggregate(schools, order,
                         [districts |-> << >>, dorder |-> << >>,
                          blocks |-> << >>, border |-> << >>])
    IN  [ schools |-> [i \in 1..Len(order) |-> schools[order[i]]],
          districts |-> [i \in 1..Len(acc.dorder) |-> district_averages(acc.districts[acc.dorder[i]])],
          blocks |-> [i \in 1..Len(acc.border) |-> block_averages(acc.blocks[acc.border[i]])] ]

get_aggregated_data ==
    /\ last' = [call |-> "get_aggregated_data", result |-> aggregated_data(schools_data, schools_order)]
    /\ UNCHANGED <<schools_data, schools_order, uploaded>>
    /\ UNCHANGED <<importVars, etlVars, fnVars, agg>>

NextParser ==
    \/ parse_excel
    \/ get_aggregated_data

(***************************************************************************)
(* The helper functions (SpecFn): scores, status bands, rates, coercions   *)
(* and the placeholder filter.  Each action calls one function on inputs   *)
(* drawn from a small set and keeps the call in ret.                       *)
(* A percentage or score is an integer in tenths (50.0 is 500); inside a   *)
(* score formula the unit is a ten-thousandth, so that the weights are     *)
(* exact.                                                                  *)
(***************************************************************************)
Scaled(tenths) == tenths * 1000

Min2(a, b) == IF a < b THEN a ELSE b

Max2(a, b) == IF a > b THEN a ELSE b

\* round(x, 1) of a scaled value, in tenths.
Round1(x) ==
    IF x >= 0 THEN RoundRatio(x, 1000) ELSE 0 - RoundRatio(0 - x, 1000)

\* The weights of the composite formulas, in hundredths.
\* server.py calculate_shi: identity, infrastructure and the final index.
identity_weights == <<50, 30, 20>>

infra_weights == <<40, 30, 30>>

\* A weight table whose entries do not add up to 1.0.
shi_weights_short == <<25, 25, 20, 20>>

shi_weights == <<25, 25, 20, 20, 10>>

\* routers/executive.py: the four domain indices and the index over them.
identity_compliance_weights == <<40, 40, 20>>

infrastructure_index_weights == <<30, 25, 25, 20>>

teacher_quality_weights == <<40, 30, 30>>

operational_index_weights == <<30, 25, 25, 20>>

executive_shi_weights == <<25, 25, 25, 25>>

\* etl_pipeline.py create_districts_summary / create_blocks_summary
etl_shi_weights == <<30, 30, 40>>

\* w1 * s1 + w2 * s2 + ..., on scaled sub-scores.
RECURSIVE Dot(_, _)
Dot(weights, scores) ==
    IF weights = <<>> THEN 0
    ELSE Head(weights) * Head(scores) + Dot(Tail(weights), Tail(scores))

Weighted(weights, scores) == Dot(weights, scores) \div 100

\* server.py calculate_shi
calculate_shi(school_data) ==
    LET aadhaar_pct == Scaled(Get(school_data, "aadhaar_percentage", 0))
        apaar_pct == Scaled(Get(school_data, "apaar_percentage", 0))
        identity_score == Weighted(identity_weights, <<aadhaar_pct, apaar_pct, Scaled(1000)>>)
        water == IF Get(school_data, "water_available", TRUE) THEN Scaled(1000) ELSE 0
        toilet == IF Get(school_data, "toilets_available", TRUE) THEN Scaled(1000) ELSE 0
        classroom_ratio == Get(school_data, "students_per_classroom", 40)
        classroom_score == Min2(Scaled(1000), (40 * Scaled(1000)) \div Max2(classroom_ratio, 1))
        infra_score == Weighted(infra_weights, <<water, toilet, classroom_score>>)
        ptr == Get(school_data, "ptr", 30)
        teacher_score == Min2(Scaled(1000), (30 * Scaled(1000)) \div Max2(ptr, 1))
        operational_score == IF Get(school_data, "certified", FALSE) THEN Scaled(1000) ELSE Scaled(500)
        age_integrity == Scaled(900)
        shi == Weighted(shi_weights, <<identity_score, infra_score, teacher_score,
                                       operational_score, age_integrity>>)
    IN  Round1(Min2(Scaled(1000), Max2(0, shi)))

\* routers/executive.py: a domain index, round(w1 * s1 + ..., 1)
domain_index(weights, scores) ==
    Round1(Weighted(weights, [i \in 1..Len(scores) |-> Scaled(scores[i])]))

\* identity_compliance_index, from aadhaar_coverage, apaar_coverage and
\* name_mismatch_rate
identity_compliance_index(aadhaar_coverage, apaar_coverage, name_mismatch_rate) ==
    domain_index(identity_compliance_weights,
                 <<aadhaar_coverage, apaar_coverage, 1000 - name_mismatch_rate>>)

infrastructure_index(classroom_health, toilet_functional, water_availability, electricity_pct) ==
    domain_index(infrastructure_index_weights,
                 <<classroom_health, toilet_functional, water_availability, electricity_pct>>)

teacher_quality_index(ctet_pct, nishtha_pct, aadhaar_verified_pct) ==
    domain_index(teacher_quality_weights, <<ctet_pct, nishtha_pct, aadhaar_verified_pct>>)

operational_index(completion_rate, certification_rate, data_accuracy, dropout_rate) ==
    domain_index(operational_index_weights,
                 <<completion_rate, certification_rate, data_accuracy, 1000 - dropout_rate>>)

\* routers/executive.py get_school_health_index: the index over the four
\* domain indices.
executive_shi(identity_index, infra_index, teacher_index, operational) ==
    domain_index(executive_shi_weights,
                 <<identity_index, infra_index, teacher_index, operational>>)

\* routers/executive.py get_school_health_index: the SHI of a block, from the
\* block's aadhaar_pct, classroom_health, ctet_pct and completion_rate.
block_shi_value(aadhaar_pct, classroom_health, ctet_pct, completion_rate) ==
    LET block_identity == aadhaar_pct
        block_infra == classroom_health
        block_teacher == ctet_pct * 2
        block_ops == completion_rate
    IN  domain_index(executive_shi_weights,
                     <<block_identity, block_infra, block_teacher, block_ops>>)

\* etl_pipeline.py create_districts_summary / create_blocks_summary: shi_score
etl_shi_score(aadhaar_pct, apaar_pct, teacher_quality) ==
    domain_index(etl_shi_weights, <<aadhaar_pct, apaar_pct, teacher_quality>>)

\* Percentages in tenths: in range, and noisy ones below and above.
Percents == { 0, 500, 1000 }

NoisyPercents == Percents \cup { 0 - 500, 1500 }

\* The school documents calculate_shi is called on: each field present or not.
OneOf(key, values) == { << >> } \cup { (key :> v) : v \in values }

ShiSchools ==
    { a @@ p @@ w @@ t @@ c @@ r @@ o :
        a \in OneOf("aadhaar_percentage", { 0 - 500, 1000, 1500 }),
        p \in OneOf("apaar_percentage", { 1500 }),
        w \in OneOf("water_available", { FALSE }),
        t \in OneOf("toilets_available", { FALSE }),
        c \in OneOf("students_per_classroom", { 80 }),
        r \in OneOf("ptr", { 60 }),
        o \in OneOf("certified", { TRUE }) }

NoReturn == [fn |-> "none"]

InitFn == ret = NoReturn

call_calculate_shi ==
    /\ \E school_data \in ShiSchools :
          ret' = [fn |-> "calculate_shi", args |-> <<school_data>>,
                  weights |-> <<identity_weights, infra_weights, shi_weights>>,
                  result |-> calculate_shi(school_data)]
    /\ UNCHANGED <<importVars, etlVars, parserVars>>

call_block_shi ==
    /\ \E a \in Percents, c \in Percents, t \in Percents, o \in Percents :
          ret' = [fn |-> "block_shi_value", args |-> <<a, c, t, o>>,
                  weights |-> <<executive_shi_weights>>,
                  result |-> block_shi_value(a, c, t, o)]
    /\ UNCHANGED <<importVars, etlVars, parserVars>>

call_etl_shi ==
    /\ \E a \in Percents, p \in NoisyPercents, t \in Percents :
          ret' = [fn |-> "etl_shi_score", args |-> <<a, p, t>>,
                  weights |-> <<etl_shi_weights>>,
                  result |-> etl_shi_score(a, p, t)]
    /\ UNCHANGED <<importVars, etlVars, parserVars>>

\* routers/executive.py get_school_health_index: the four domain indices of
\* the scope and the index over them.
call_executive_shi ==
    /\ \E x \in { 0, 1000 }, y \in Percents, z \in { 0, 1000 } :
          LET identity_index == identity_compliance_index(x, y, z)
              infra_index == infrastructure_index(y, x, z, x)
              teacher_index == teacher_quality_index(z, y, x)
              operational == operational_index(x, z, y, y)
          IN  ret' = [fn |-> "executive_shi",
                      args |-> <<identity_index, infra_index, teacher_index, operational>>,
                      weights |-> <<identity_compliance_weights, infrastructure_index_weights,
                                    teacher_quality_weights, operational_index_weights,
                                    executive_shi_weights>>,
                      result |-> executive_shi(identity_index, infra_index,
                                               teacher_index, operational)]
    /\ UNCHANGED <<importVars, etlVars, parserVars>>

\* server.py get_rag_status
get_rag_status(shi_score) ==
    IF shi_score >= 850 THEN "green"
    ELSE IF shi_score >= 700 THEN "amber"
    ELSE IF shi_score >= 500 THEN "amber"
    ELSE "red"

\* routers/executive.py get_school_health_index: get_rag(value)["status"]
get_rag(value) ==
    IF value >= 850 THEN "Green"
    ELSE IF value >= 700 THEN "Amber"
    ELSE "Red"

\* etl_pipeline.py create_districts_summary / create_blocks_summary: rag_status
etl_rag_status(shi_score) ==
    IF shi_score >= 750 THEN "green" ELSE IF shi_score >= 500 THEN "amber" ELSE "red"

\* routers/analytics.py: rag_status
analytics_rag_status(shi) ==
    IF shi >= 750 THEN "green" ELSE IF shi >= 600 THEN "amber" ELSE "red"

\* Scores in tenths, around every threshold in use.
Scores == { 0, 499, 500, 599, 600, 699, 700, 749, 750, 849, 850, 1000 }

call_get_rag_status ==
    /\ \E shi_score \in Scores :
          ret' = [fn |-> "get_rag_status", args |-> <<shi_score>>,
                  result |-> get_rag_status(shi_score)]
    /\ UNCHANGED <<importVars, etlVars, parserVars>>

call_get_rag ==
    /\ \E value \in Scores :
          ret' = [fn |-> "get_rag", args |-> <<value>>, result |-> get_rag(value)]
    /\ UNCHANGED <<importVars, etlVars, parserVars>>

call_etl_rag_status ==
    /\ \E shi_score \in Scores :
          ret' = [fn |-> "etl_rag_status", args |-> <<shi_score>>,
                  result |-> etl_rag_status(shi_score)]
    /\ UNCHANGED <<importVars, etlVars, parserVars>>

call_analytics_rag_status ==
    /\ \E shi \in Scores :
          ret' = [fn |-> "analytics_rag_status", args |-> <<shi>>,
                  result |-> analytics_rag_status(shi)]
    /\ UNCHANGED <<importVars, etlVars, parserVars>>

\* The counts a rate is derived from.
MaxCount == 4

Counts == 0..MaxCount

\* etl_pipeline.py etl_aadhaar: exception_rate, in hundredths,
\* round((n / d * 100) if d > 0 else 0, 2)
exception_rate(aadhaar_not_provided, total_enrolment) ==
    IF total_enrolment > 0 THEN RoundRatio(aadhaar_not_provided * 10000, total_enrolment) ELSE 0

\* etl_pipeline.py etl_apaar: generation_rate, in hundredths
generation_rate(total_generated, total_students) ==
    IF total_students > 0 THEN RoundRatio(total_generated * 10000, total_students) ELSE 0

\* routers/data_entry.py process_data_entry_file: completion_pct, in hundredths
completion_pct(total_completed, total_students) ==
    IF total_students > 0 THEN RoundRatio(total_completed * 10000, total_students) ELSE 0

\* parser.py parse_aadhaar / parse_apaar: the percentage of a record, in tenths
call_percentage ==
    /\ \E num \in Counts, den \in Counts :
          ret' = [fn |-> "percentage", args |-> <<num, den>>, unit |-> 10,
                  result |-> percentage(num, den)]
    /\ UNCHANGED <<importVars, etlVars, parserVars>>

call_exception_rate ==
    /\ \E num \in Counts, den \in Counts :
          ret' = [fn |-> "exception_rate", args |-> <<num, den>>, unit |-> 100,
                  result |-> exception_rate(num, den)]
    /\ UNCHANGED <<importVars, etlVars, parserVars>>

call_generation_rate ==
    /\ \E num \in Counts, den \in Counts :
          ret' = [fn |-> "generation_rate", args |-> <<num, den>>, unit |-> 100,
                  result |-> generation_rate(num, den)]
    /\ UNCHANGED <<importVars, etlVars, parserVars>>

call_completion_pct ==
    /\ \E num \in Counts, den \in Counts :
          ret' = [fn |-> "completion_pct", args |-> <<num, den>>, unit |-> 100,
                  result |-> completion_pct(num, den)]
    /\ UNCHANGED <<importVars, etlVars, parserVars>>

\* The values the coercion functions are called on.
Texts ==
    { <<>>, <<"1", "-", "Y", "e", "s">>, <<"2", "-", "N", "o">>, <<"2", "-", "Y", "e", "s">>,
      <<"3", "-", "x">>, <<"y", "e", "s">>, <<"Y", "E", "S">>, <<"N", "o">>,
      <<"(", "1", ")">>, <<"(", "a", ")">>, <<"1", "2", "a">>, <<"1", "2", ".", "7">>,
      <<"1", "e", "3">>, <<" ", "1", "2", " ">>, <<"-", "5">>, <<"a", "b", "c">>,
      <<"i", "n", "f">> }

Values ==
    { None, NaNCell, Num(0), Num(7), Flt(127), Flt(0 - 127), Inf }
        \cup { Str(s) : s \in Texts }

call_etl_safe_int ==
    /\ \E val \in Values :
          ret' = [fn |-> "etl_safe_int", args |-> <<val>>, raised |-> FALSE,
                  result |-> etl_safe_int(val)]
    /\ UNCHANGED <<importVars, etlVars, parserVars>>

call_etl_safe_float ==
    /\ \E val \in Values :
          ret' = [fn |-> "etl_safe_float", args |-> <<val>>, raised |-> FALSE,
                  result |-> etl_safe_float(val)]
    /\ UNCHANGED <<importVars, etlVars, parserVars>>

call_etl_safe_str ==
    /\ \E cell \in { NaN } \cup Texts :
          ret' = [fn |-> "etl_safe_str", args |-> <<cell>>, raised |-> FALSE,
                  result |-> etl_safe_str(cell)]
    /\ UNCHANGED <<importVars, etlVars, parserVars>>

call_safe_int ==
    /\ \E val \in Values :
          ret' = [fn |-> "safe_int", args |-> <<val>>, raised |-> safe_int_raises(val),
                  result |-> IF safe_int_raises(val) THEN 0 ELSE safe_int(val)]
    /\ UNCHANGED <<importVars, etlVars, parserVars>>

call_safe_float ==
    /\ \E val \in Values :
          ret' = [fn |-> "safe_float", args |-> <<val>>, raised |-> FALSE,
                  result |-> safe_float(val)]
    /\ UNCHANGED <<importVars, etlVars, parserVars>>

call_safe_str ==
    /\ \E cell \in { NaN } \cup Texts :
          ret' = [fn |-> "safe_str", args |-> <<cell>>, raised |-> FALSE,
                  result |-> safe_str(cell)]
    /\ UNCHANGED <<importVars, etlVars, parserVars>>

\* Rows of six cells for the placeholder filters: the first, the fifth and
\* the sixth cell vary.
FilterCells == { Str(<<"(", "1", ")">>), Str(<<"(", "a", ")">>), Str(<<"U", "1">>), Num(1) }

FilterRows ==
    { <<a, Str(<<"2", "7">>), Str(<<"A">>), Num(2), b, c>> :
        a \in FilterCells, b \in FilterCells, c \in FilterCells }

FilterFrames ==
    { <<r>> : r \in FilterRows } \cup
    { <<r, q>> : r \in { x \in FilterRows : x[5] = Num(1) /\ x[6] = Num(1) },
                 q \in { x \in FilterRows : x[1] # Num(1) /\ x[5] = Num(1) /\ x[6] = Num(1) } }

call_is_placeholder_row ==
    /\ \E row \in FilterRows :
          ret' = [fn |-> "is_placeholder_row", args |-> <<row>>,
                  result |-> is_placeholder_values(row)]
    /\ UNCHANGED <<importVars, etlVars, parserVars>>

call_enrolment_skip_header ==
    /\ \E frame \in FilterFrames :
          ret' = [fn |-> "enrolment_skip_header", args |-> <<frame>>,
                  result |-> enrolment_skip_header(frame)]
    /\ UNCHANGED <<importVars, etlVars, parserVars>>

\* Only the first row is looked at, for comparison.
df_skip_first_placeholder(frame) ==
    IF frame # <<>> /\ is_placeholder_values(frame[1]) THEN Tail(frame) ELSE frame

\* etl_pipeline.py read_excel_skip_placeholders on a frame of whole rows:
\* df[~df.apply(is_placeholder_row, axis=1)]
df_skip_placeholders(frame) ==
    SelectSeq(frame, LAMBDA row : ~is_placeholder_values(row))

call_read_excel_skip_placeholders ==
    /\ \E frame \in FilterFrames :
          ret' = [fn |-> "read_excel_skip_placeholders", args |-> <<frame>>,
                  result |-> df_skip_placeholders(frame)]
    /\ UNCHANGED <<importVars, etlVars, parserVars>>

NextFn ==
    \/ call_calculate_shi
    \/ call_block_shi
    \/ call_etl_shi
    \/ call_executive_shi
    \/ call_get_rag_status
    \/ call_get_rag
    \/ call_etl_rag_status
    \/ call_analytics_rag_status
    \/ call_percentage
    \/ call_exception_rate
    \/ call_generation_rate
    \/ call_completion_pct
    \/ call_etl_safe_int
    \/ call_etl_safe_float
    \/ call_etl_safe_str
    \/ call_safe_int
    \/ call_safe_float
    \/ call_safe_str
    \/ call_is_placeholder_row
    \/ call_enrolment_skip_header
    \/ call_read_excel_skip_placeholders

IdleFn == InitFn

IdleETL ==
    /\ db = [c \in Collections |-> <<>>]
    /\ etl_pc = 0
    /\ stats = << >>
    /\ log = << >>
    /\ loader = NoLoop

IdleImport ==
    /\ target = "aadhaar"
    /\ coll = <<>>
    /\ next_id = 1
    /\ pc = [r \in Runs |-> "idle"]
    /\ df = [r \in Runs |-> <<>>]
    /\ records_processed = [r \in Runs |-> 0]
    /\ lost = [r \in Runs |-> <<>>]
    /\ InitAuth

IdleParser == InitParser

Init == InitImport /\ IdleETL /\ IdleParser /\ IdleFn

Next == NextImport

Spec == Init /\ [][Next]_vars

InitSpecETL == IdleImport /\ InitETL /\ IdleParser /\ IdleFn

SpecETL == InitSpecETL /\ [][NextETL]_vars

InitSpecParser == IdleImport /\ IdleETL /\ InitParser /\ IdleFn

SpecParser == InitSpecParser /\ [][NextParser]_vars

InitSpecFn == IdleImport /\ IdleETL /\ IdleParser /\ InitFn

SpecFn == InitSpecFn /\ [][NextFn]_vars

SpecAuth == InitSpecFn /\ [][NextAuth]_vars

(***************************************************************************)
(* Column resolution (SpecCols): how the import tasks and the parser find  *)
(* the column of a field among df.columns.  A column name is the sequence  *)
(* of its characters, as it stands after the names were lowercased and     *)
(* blanks replaced; a row maps each column name to its cell.               *)
(***************************************************************************)
\* Python's `sub in s` on two strings.
contains(s, sub) == \E i \in 0..(Len(s) - Len(sub)) : SubSeq(s, i + 1, i + Len(sub)) = sub

\* `name in columns`: the name is one of the frame's column labels.
in_columns(name, columns) == \E i \in 1..Len(columns) : columns[i] = name

\* routers/aadhaar.py safe_str_val: the first name that is a column and
\* whose cell is not missing; the cells are texts.
RECURSIVE safe_str_val(_, _, _)
safe_str_val(row, columns, possible_names) ==
    IF possible_names = <<>> THEN <<>>
    ELSE IF in_columns(Head(possible_names), columns) /\ notna(row[Head(possible_names)])
    THEN strip(row[Head(possible_names)])
    ELSE safe_str_val(row, columns, Tail(possible_names))

\* A resolution that looks at the first name only.
safe_int_val_first(row, columns, possible_names) ==
    IF /\ possible_names # <<>>
       /\ in_columns(Head(possible_names), columns)
       /\ ~isna(row[Head(possible_names)])
       /\ float_of(row[Head(possible_names)]).kind = "num"
    THEN int_of_float(float_of(row[Head(possible_names)]))
    ELSE 0

\* routers/aadhaar.py safe_int_val over the names: a cell that is missing
\* or does not convert passes the turn to the next name.
RECURSIVE safe_int_val_of(_, _, _)
safe_int_val_of(row, columns, possible_names) ==
    IF possible_names = <<>> THEN 0
    ELSE IF /\ in_columns(Head(possible_names), columns)
            /\ ~isna(row[Head(possible_names)])
            /\ float_of(row[Head(possible_names)]).kind = "num"
    THEN int_of_float(float_of(row[Head(possible_names)]))
    ELSE safe_int_val_of(row, columns, Tail(possible_names))

\* parser.py parse_aadhaar: [c for c in df.columns if 'udise' in c or
\* 'school_code' in c or ...], the columns in the frame's order.
matching_cols(columns, keywords) ==
    SelectSeq(columns, LAMBDA c : \E i \in 1..Len(keywords) : contains(c, keywords[i]))

\* parser.py parse_aadhaar: the identifier, from the first matching column
\* whose cell is not missing; None (here the empty text) without one.
RECURSIVE first_notna(_, _)
first_notna(row, cols) ==
    IF cols = <<>> THEN <<>>
    ELSE IF notna(row[Head(cols)]) THEN safe_str(row[Head(cols)])
    ELSE first_notna(row, Tail(cols))

parse_udise(row, columns, keywords) == first_notna(row, matching_cols(columns, keywords))

\* parser.py parse_aadhaar: safe_str(row.get(district_cols[0], "")) if
\* district_cols else ""
first_col_value(row, cols) == IF cols = <<>> THEN <<>> ELSE safe_str(row[Head(cols)])

parse_text_field(row, columns, keywords) == first_col_value(row, matching_cols(columns, keywords))

\* row.get(name1, row.get(name2, ... default)): the cell of the first name
\* that is a label of the row.
RECURSIVE row_get(_, _, _)
row_get(row, names, default) ==
    IF names = <<>> THEN default
    ELSE IF Head(names) \in DOMAIN row THEN row[Head(names)]
    ELSE row_get(row, Tail(names), default)

\* parser.py parse_aadhaar: safe_int(row.get('total_student',
\* row.get('total_students', row.get('totalstudent', 0))))
parse_count(row, names) == safe_int(row_get(row, names, Num(0)))

\* Column names: "ba" contains "a" (as district_name contains district).
ColA == <<"a">>
ColBA == <<"b", "a">>
ColC == <<"c">>
ColumnNames == { ColA, ColBA, ColC }

\* df.columns: up to two distinct names, in the order of the sheet.
ColumnLists ==
    { <<>> } \cup { <<c>> : c \in ColumnNames } \cup
    { q \in { <<c, d>> : c \in ColumnNames, d \in ColumnNames } : q[1] # q[2] }

\* The names a caller asks for, in its order.
NameLists == { <<ColA>>, <<ColBA, ColA>>, <<ColA, ColBA>>, <<ColC, ColBA, ColA>> }

\* A text cell holds its column's name between blanks, a numeric cell a
\* number that tells the columns apart.
TextOf(c) == <<" ">> \o c \o <<" ">>

NumberOf(c) == IF c = ColA THEN 1 ELSE IF c = ColBA THEN 2 ELSE 3

TextCells == { NaN } \cup { TextOf(name) : name \in ColumnNames }

CountCells == { NaNCell, Str(<<"x">>) } \cup { Num(NumberOf(name)) : name \in ColumnNames }

TextRows(columns) ==
    { r \in [Range(columns) -> TextCells] :
        \A c \in Range(columns) : r[c] \in { NaN, TextOf(c) } }

CountRows(columns) ==
    { r \in [Range(columns) -> CountCells] :
        \A c \in Range(columns) : r[c] \in { NaNCell, Str(<<"x">>), Num(NumberOf(c)) } }

call_safe_str_val ==
    /\ \E columns \in ColumnLists : \E row \in TextRows(columns) : \E names \in NameLists :
          ret' = [fn |-> "safe_str_val", args |-> <<row, columns, names>>,
                  result |-> safe_str_val(row, columns, names)]
    /\ UNCHANGED <<importVars, etlVars, parserVars>>

call_safe_int_val ==
    /\ \E columns \in ColumnLists : \E row \in CountRows(columns) : \E names \in NameLists :
          ret' = [fn |-> "safe_int_val", args |-> <<row, columns, names>>,
                  result |-> safe_int_val_of(row, columns, names)]
    /\ UNCHANGED <<importVars, etlVars, parserVars>>

call_parse_udise ==
    /\ \E columns \in ColumnLists : \E row \in TextRows(columns) : \E names \in NameLists :
          ret' = [fn |-> "parse_udise", args |-> <<row, columns, names>>,
                  result |-> parse_udise(row, columns, names)]
    /\ UNCHANGED <<importVars, etlVars, parserVars>>

call_parse_text_field ==
    /\ \E columns \in ColumnLists : \E row \in TextRows(columns) : \E names \in NameLists :
          ret' = [fn |-> "parse_text_field", args |-> <<row, columns, names>>,
                  result |-> parse_text_field(row, columns, names)]
    /\ UNCHANGED <<importVars, etlVars, parserVars>>

call_parse_count ==
    /\ \E columns \in ColumnLists : \E row \in CountRows(columns) : \E names \in NameLists :
          ret' = [fn |-> "parse_count", args |-> <<row, columns, names>>,
                  result |-> parse_count(row, names)]
    /\ UNCHANGED <<importVars, etlVars, parserVars>>

NextCols ==
    \/ call_safe_str_val
    \/ call_safe_int_val
    \/ call_parse_udise
    \/ call_parse_text_field
    \/ call_parse_count

SpecCols == InitSpecFn /\ [][NextCols]_vars

(***************************************************************************)
(* Binary floating point, as Python's float (IEEE 754 binary64) computes.  *)
(* A natural number of any size is the sequence of its limbs of 15 bits,   *)
(* the lowest first; a float is [m |-> limbs, e |-> exponent], the number  *)
(* m * 2^e with m below 2^53.  Results are rounded to 53 significant bits, *)
(* the exact half to the even neighbour.                                   *)
(***************************************************************************)
LimbOf(n) == n % 32768

CarryOf(n) == n \div 32768

RECURSIVE Pow2(_)
Pow2(k) == IF k = 0 THEN 1 ELSE 2 * Pow2(k - 1)

\* The number of bits of a natural number below 2^15.
RECURSIVE BitLen(_)
BitLen(n) == IF n = 0 THEN 0 ELSE 1 + BitLen(n \div 2)

\* The limbs of a natural number below 2^30, and back.
NatLimbs(n) ==
    IF n = 0 THEN <<>> ELSE IF n < 32768 THEN <<n>> ELSE <<LimbOf(n), CarryOf(n)>>

LimbsNat(a) ==
    IF a = <<>> THEN 0 ELSE IF Len(a) = 1 THEN a[1] ELSE a[1] + 32768 * a[2]

\* Without the zero limbs at the high end.
RECURSIVE Trim(_)
Trim(a) == IF a # <<>> /\ a[Len(a)] = 0 THEN Trim(SubSeq(a, 1, Len(a) - 1)) ELSE a

LimbOr0(a) == IF a = <<>> THEN 0 ELSE Head(a)

TailOrEmpty(a) == IF a = <<>> THEN <<>> ELSE Tail(a)

\* a + b + carry
RECURSIVE LimbsAdd(_, _, _)
LimbsAdd(a, b, carry) ==
    IF a = <<>> /\ b = <<>> THEN (IF carry = 0 THEN <<>> ELSE <<carry>>)
    ELSE <<LimbOf(LimbOr0(a) + LimbOr0(b) + carry)>> \o
         LimbsAdd(TailOrEmpty(a), TailOrEmpty(b), CarryOf(LimbOr0(a) + LimbOr0(b) + carry))

\* a * k + carry, for k up to 2^15
RECURSIVE LimbsTimes(_, _, _)
LimbsTimes(a, k, carry) ==
    IF a = <<>> THEN (IF carry = 0 THEN <<>> ELSE <<carry>>)
    ELSE <<LimbOf(Head(a) * k + carry)>> \o LimbsTimes(Tail(a), k, CarryOf(Head(a) * k + carry))

\* One step of the long division by n, up to 2^15: the higher limbs were
\* divided with quotient hi.q and remainder hi.r, limb is the next lower.
DivStep(hi, limb, n) ==
    [q |-> <<(hi.r * 32768 + limb) \div n>> \o hi.q, r |-> (hi.r * 32768 + limb) % n]

\* Quotient and remainder of a by n.
RECURSIVE LimbsDivMod(_, _)
LimbsDivMod(a, n) ==
    IF a = <<>> THEN [q |-> <<>>, r |-> 0]
    ELSE DivStep(LimbsDivMod(Tail(a), n), Head(a), n)

\* The number of bits of a, which has no zero limb at the high end.
Bits(a) == IF a = <<>> THEN 0 ELSE 15 * (Len(a) - 1) + BitLen(a[Len(a)])

\* a * 2^s
ShiftLeft(a, s) ==
    IF a = <<>> THEN <<>>
    ELSE [i \in 1..(s \div 15) |-> 0] \o LimbsTimes(a, Pow2(s % 15), 0)

\* a with its s low bits dropped, and whether a one was among them.
DropLimbs(a, k) == IF k >= Len(a) THEN <<>> ELSE SubSeq(a, k + 1, Len(a))

DropBits(dm, dropped) == [q |-> Trim(dm.q), nz |-> dropped \/ dm.r # 0]

ShiftRight(a, s) ==
    DropBits(LimbsDivMod(DropLimbs(a, s \div 15), Pow2(s % 15)),
             \E i \in 1..(s \div 15) : i <= Len(a) /\ a[i] # 0)

\* g holds the bits kept and below them the first bit dropped; a one was
\* among the further bits dropped when g.nz or sticky.  The bits kept, plus
\* one when more than the half was dropped, or the half and the last bit
\* kept is odd.
HalfEven(g, sticky) ==
    IF LimbOr0(g.q) % 2 = 1 /\ (g.nz \/ sticky \/ (LimbOr0(g.q) \div 2) % 2 = 1)
    THEN LimbsAdd(LimbsDivMod(g.q, 2).q, <<1>>, 0)
    ELSE Trim(LimbsDivMod(g.q, 2).q)

\* The number a * 2^e, followed by a nonzero tail when sticky, rounded to 53
\* significant bits.
RoundSig(a, e, sticky) ==
    IF Bits(a) <= 53 THEN [m |-> a, e |-> e]
    ELSE [m |-> HalfEven(ShiftRight(a, Bits(a) - 54), sticky), e |-> e + Bits(a) - 53]

\* float(n) of a natural number below 2^30
FromInt(n) == [m |-> NatLimbs(n), e |-> 0]

\* x + y
FAddAt(x, y, e) ==
    RoundSig(LimbsAdd(ShiftLeft(x.m, x.e - e), ShiftLeft(y.m, y.e - e), 0), e, FALSE)

FAdd(x, y) ==
    IF x.m = <<>> THEN y
    ELSE IF y.m = <<>> THEN x
    ELSE FAddAt(x, y, IF x.e < y.e THEN x.e ELSE y.e)

\* x / n for a natural n up to 2^15: the mantissa is first made long enough
\* for the quotient to have more than 53 bits.
FDivShifted(dm, e) == RoundSig(Trim(dm.q), e, dm.r # 0)

FDivBy(x, n, s) == FDivShifted(LimbsDivMod(ShiftLeft(x.m, s), n), x.e - s)

FDivInt(x, n) ==
    FDivBy(x, n, IF 55 + BitLen(n) > Bits(x.m) THEN 55 + BitLen(n) - Bits(x.m) ELSE 0)

\* The float nearest to tenths / 10: what round(..., 1) returns.
FromTenths(tenths) == FDivInt(FromInt(tenths), 10)

\* round(x, 1), in tenths, from t = 10 * m with f bits after the binary
\* point: the exact half goes to the even tenth.
RoundTenthsAt(t, f) ==
    IF f = 0 THEN LimbsNat(t) ELSE LimbsNat(HalfEven(ShiftRight(t, f - 1), FALSE))

FRound1(x) ==
    IF x.e >= 0 THEN LimbsNat(ShiftLeft(LimbsTimes(x.m, 10, 0), x.e))
    ELSE RoundTenthsAt(LimbsTimes(x.m, 10, 0), 0 - x.e)

(***************************************************************************)
(* get_aggregated_data over the schools of one district, one school a      *)
(* step (SpecAgg).  The rate sum is the float the code adds up, school by  *)
(* school in visiting order; district_add above keeps it in exact tenths,  *)
(* which is the same number as long as no addition rounds.                 *)
(*   agg.schools  the district's schools, in the order of schools_data     *)
(*   agg.i        the school the loop visits next                          *)
(*   agg.d        the district's accumulators                              *)
(*   agg.result   what "Calculate averages" made of them                   *)
(***************************************************************************)
MaxSchools == 4

\* A school of the district: its student count and its Aadhaar percentage,
\* in tenths.
AggSchool(students, tenths) == [total_students |-> students, aadhaar_percentage |-> tenths]

AggSchools == { AggSchool(2, 0), AggSchool(1, 1), AggSchool(3, 3) }

\* districts[district_name] = {...}
rate_district ==
    [total_schools |-> 0, total_students |-> 0, aadhaar_sum |-> FromInt(0),
     schools_with_data |-> 0]

\* The "Aggregate" step: the sum grows under the truthiness test.
rate_add(d, school) ==
    [ total_schools |-> d.total_schools + 1,
      total_students |-> d.total_students + school.total_students,
      aadhaar_sum |-> IF school.aadhaar_percentage # 0
                      THEN FAdd(d.aadhaar_sum, FromTenths(school.aadhaar_percentage))
                      ELSE d.aadhaar_sum,
      schools_with_data |-> d.schools_with_data + (IF school.aadhaar_percentage # 0 THEN 1 ELSE 0) ]

\* "Calculate averages": round(d["aadhaar_sum"] / d["schools_with_data"], 1)
rate_averages(d) ==
    [ total_schools |-> d.total_schools,
      total_students |-> d.total_students,
      schools_with_data |-> d.schools_with_data,
      aadhaar_percentage |-> IF d.schools_with_data > 0
                             THEN FRound1(FDivInt(d.aadhaar_sum, d.schools_with_data))
                             ELSE 0 ]

\* The whole loop and the averages, for schools visited in the given order.
RECURSIVE rate_loop(_, _)
rate_loop(d, schools) ==
    IF schools = <<>> THEN d ELSE rate_loop(rate_add(d, Head(schools)), Tail(schools))

district_rollup(schools) == rate_averages(rate_loop(rate_district, schools))

\* for udise, school in self.schools_data.items():
agg_start ==
    /\ agg.pc = "idle"
    /\ \E schools \in SeqsUpTo(AggSchools, MaxSchools) :
          agg' = [pc |-> "loop", schools |-> schools, i |-> 1, d |-> rate_district]
    /\ UNCHANGED <<schools_data, schools_order, last, uploaded>>
    /\ UNCHANGED <<importVars, etlVars, fnVars>>

agg_visit ==
    /\ agg.pc = "loop"
    /\ agg.i <= Len(agg.schools)
    /\ agg' = [agg EXCEPT !.i = @ + 1, !.d = rate_add(@, agg.schools[agg.i])]
    /\ UNCHANGED <<schools_data, schools_order, last, uploaded>>
    /\ UNCHANGED <<importVars, etlVars, fnVars>>

\* for d in districts.values(): ...
agg_averages ==
    /\ agg.pc = "loop"
    /\ agg.i > Len(agg.schools)
    /\ agg' = [pc |-> "done", schools |-> agg.schools, i |-> agg.i, d |-> agg.d,
               result |-> rate_averages(agg.d)]
    /\ UNCHANGED <<schools_data, schools_order, last, uploaded>>
    /\ UNCHANGED <<importVars, etlVars, fnVars>>

NextAgg ==
    \/ agg_start
    \/ agg_visit
    \/ agg_averages

SpecAgg == InitSpecFn /\ [][NextAgg]_vars

(***************************************************************************)
(* The batched loaders (SpecBatch): etl_age_wise and etl_ctteacher build   *)
(* their records and hand them to insert_many in slices of batch_size.     *)
(* Each insert_many is awaited, so each is a step of its own.  A record is *)
(* named by a number; the same record may occur twice in a file.  In the   *)
(* source batch_size is 10000; the loop is checked with a small one.       *)
(***************************************************************************)
MaxRecords == 5

batch_size == 2

BatchedLoaders == { "age_wise", "ctteacher" }

BatchRecords == SeqsUpTo({ 1, 2, 3 }, MaxRecords)

\* records[i:j], a Python slice: positions i .. j-1, cut at the end.
slice(records, i, j) == SubSeq(records, i + 1, IF j < Len(records) THEN j ELSE Len(records))

\* A slice that starts one record early, for comparison.
batch_overlapping(records, i) == slice(records, IF i > 0 THEN i - 1 ELSE 0, i + batch_size)

\* records[i:i+batch_size]
batch_at(records, i) == slice(records, i, i + batch_size)

\* The loader has read its file and built records; the collection is as
\* clear_collections left it.
etl_batched_read ==
    /\ loader = NoLoop
    /\ \E d \in BatchedLoaders, records \in BatchRecords :
          /\ loader' = [pc |-> "insert", d |-> d, records |-> records, i |-> 0,
                        batches |-> <<>>]
          /\ log' = Append(log, Begun(d))
    /\ UNCHANGED <<db, etl_pc, stats>>
    /\ UNCHANGED <<importVars, parserVars, fnVars>>

\* One turn of "for i in range(0, len(records), batch_size)".
etl_batched_insert ==
    /\ loader.pc = "insert"
    /\ loader.i < Len(loader.records)
    /\ LET batch == batch_at(loader.records, loader.i)
       IN  /\ db' = [db EXCEPT ![CollectionOf(loader.d)] = insert_many(@, batch)]
           /\ loader' = [loader EXCEPT !.i = @ + batch_size,
                                       !.batches = Append(@, batch)]
    /\ UNCHANGED <<etl_pc, stats, log>>
    /\ UNCHANGED <<importVars, parserVars, fnVars>>

\* self.stats[...] = len(records), after the loop (or at once if there are
\* no records).
etl_batched_loaded ==
    /\ loader.pc = "insert"
    /\ loader.i >= Len(loader.records)
    /\ stats' = (loader.d :> Len(loader.records)) @@ stats
    /\ log' = Append(log, Loaded(loader.d))
    /\ loader' = [loader EXCEPT !.pc = "loaded"]
    /\ UNCHANGED <<db, etl_pc>>
    /\ UNCHANGED <<importVars, parserVars, fnVars>>

NextBatch ==
    \/ etl_batched_read
    \/ etl_batched_insert
    \/ etl_batched_loaded

SpecBatch == InitSpecFn /\ [][NextBatch]_vars

(***************************************************************************)
(* Properties of the import tasks.                                         *)
(***************************************************************************)
Udises == { <<"1">>, <<"2">> }
Vals == 0..2

\* How many documents of collection c carry identifier u and value v.
CountIn(c, u, v) == Cardinality({ i \in 1..Len(c) : c[i].udise = u /\ c[i].val = v })

\* The records a file's rows stand for: one per row that yields a record,
\* and under a keyed replace the last row of each identifier only.
RowYields(t, rows, i, u, v) == normalize_row(t, rows[i]) = Rec(u, v)

LastOfItsKey(t, rows, i, u) ==
    \A j \in (i + 1)..Len(rows) :
        LET n == normalize_row(t, rows[j]) IN ~(n.kind = "rec" /\ n.udise = u)

ProducedCount(t, rows, u, v) ==
    IF t = "aadhaar"
    THEN IF \E i \in 1..Len(rows) : RowYields(t, rows, i, u, v) /\ LastOfItsKey(t, rows, i, u)
         THEN 1 ELSE 0
    ELSE Cardinality({ i \in 1..Len(rows) : RowYields(t, rows, i, u, v) })

Between(r) == pc[r] = "rows"

\* C1: at most one import task of a collection is between its delete-all and
\* its completion at any time (single flight per target collection).
C1_SingleFlight == Cardinality({ r \in Runs : Between(r) }) <= 1

\* C2: when an import task completes, the collection holds exactly the records
\* its rows stand for, and nothing else.
C2_FullReplace ==
    [][\A r \in Runs :
          (pc[r] = "rows" /\ pc'[r] = "done") =>
              \A u \in Udises, v \in Vals :
                  CountIn(coll', u, v) = ProducedCount(target, df[r], u, v)]_vars

\* C3: after a task has stopped between its delete-all and its completion, the
\* collection holds no document the delete-all removed, now and ever after, and
\* of that task only records of rows it has iterated, no more than it counted.
C3_CrashLeavesPartial ==
    \A r \in Runs :
        pc[r] = "crashed" =>
            /\ \A d \in Range(lost[r]) : \A e \in Range(coll) : e.id # d.id
            /\ \A e \in Range(coll) :
                   e.by = r => \E i \in 1..Len(df[r]) :
                                   RowYields(target, df[r], i, e.udise, e.val)
            /\ Cardinality({ e \in Range(coll) : e.by = r }) <= records_processed[r]

\* C3 witness: a task stopped after deleting earlier content and after writing
\* one record of two rows; the collection holds that record only.
C3_Witness ==
    \E r \in Runs :
        /\ pc[r] = "crashed"
        /\ lost[r] = OldContent
        /\ Len(df[r]) = 2
        /\ records_processed[r] = 1
        /\ Len(coll) = 1
        /\ coll[1].by = r

\* C8: after a task that ran alone has completed, the collection holds at most
\* one record per identifier, and it is the record of the last row carrying
\* that identifier.
C8_OnePerIdentifier ==
    \A r \in Runs :
        (pc[r] = "done" /\ \A q \in Runs \ {r} : pc[q] = "idle") =>
            \A u \in Udises :
                /\ Cardinality({ i \in 1..Len(coll) : coll[i].udise = u }) <= 1
                /\ \A i \in 1..Len(coll) :
                       coll[i].udise = u =>
                           \E k \in 1..Len(df[r]) :
                               /\ RowYields(target, df[r], k, u, coll[i].val)
                               /\ LastOfItsKey(target, df[r], k, u)

(***************************************************************************)
(* Properties of the ETL pipeline.                                         *)
(***************************************************************************)
Before(e, i) == \E j \in 1..(i - 1) : log[j] = e

IsLoaderBegin(e) == e.ev = "begin" /\ e.what \in DatasetSet

NewDocs(c) == Cardinality({ i \in 1..Len(c) : c[i].gen = "new" })

Persisted(d) ==
    /\ d \in DOMAIN stats
    /\ NewDocs(db[CollectionOf(d)]) = stats[d]

EtlEnded == etl_pc \notin 1..Len(run_full_etl)

\* C4: the ten loaders begin in the fixed order, each only after the one before
\* it has loaded, and a summary step begins only after all ten have loaded and
\* their records are in the store.
C4_SequentialThenSummaries ==
    /\ LET begins == SelectSeq(log, IsLoaderBegin)
       IN  \A i \in 1..Len(begins) : begins[i].what = Datasets[i]
    /\ \A i \in 1..Len(log), k \in 2..Len(Datasets) :
           log[i] = Begun(Datasets[k]) => Before(Loaded(Datasets[k - 1]), i)
    /\ \A i \in 1..Len(log) :
           log[i] \in { Begun("create_districts_summary"), Begun("create_blocks_summary") } =>
               \A d \in DatasetSet : Before(Loaded(d), i) /\ Persisted(d)

\* C4 witness: the pipeline has returned and both summaries wrote documents.
C4_Witness ==
    /\ etl_pc = Len(run_full_etl) + 1
    /\ db["districts"] # <<>>
    /\ db["blocks"] # <<>>
    /\ DOMAIN stats = DatasetSet

\* C5: when the pipeline has ended, every dataset type has been taken up,
\* whichever dataset's file could not be read.
C5_FailureIsolated == EtlEnded /\ log # <<>> => \A d \in DatasetSet : Before(Begun(d), Len(log) + 1)

\* C7: every persisted record carries a non-empty school identifier.
C7_NonEmptyIdentifier == \A x \in Range(db["aadhaar_analytics"]) : x.udise # <<>>

RECURSIVE SumSchools(_)
SumSchools(c) == IF c = <<>> THEN 0 ELSE Head(c).total_schools + SumSchools(Tail(c))

BlocksOf(c, name) == SelectSeq(c, LAMBDA x : x.district_name = name)

\* C9: the block aggregates of a district add up to the district aggregate's
\* total_schools.
C9_Conservation ==
    Before(Begun("create_blocks_summary"), Len(log) + 1) =>
        \A dd \in Range(db["districts"]) :
            SumSchools(BlocksOf(db["blocks"], dd.district_name)) = dd.total_schools

(***************************************************************************)
(* Properties of the DatasetParser.                                        *)
(***************************************************************************)
\* The rows of the last parsed file that carry an identifier and whose
\* conversion does not raise.
GoodRows ==
    { i \in 1..Len(last.rows) :
        /\ row_udise(last.rows[i]) # <<>>
        /\ ~row_raises(last.dtype, last.rows[i]) }

\* C6: parsing a readable file of a known type succeeds whatever a row raises:
\* the raising row is skipped, every other row with an identifier is folded
\* into the merged map, and records_count is the number of rows written.
C6_RowErrorSkipped ==
    (last.call = "parse_excel" /\ last.readable /\ last.dtype \in ParsedTypes) =>
        /\ last.result.success
        /\ last.result.records_count = Cardinality(GoodRows)
        /\ \A i \in GoodRows : row_udise(last.rows[i]) \in DOMAIN schools_data

RECURSIVE SumField(_, _)
SumField(S, field) ==
    IF S = {} THEN 0
    ELSE LET u == CHOOSE x \in S : TRUE
         IN  Get(schools_data[u], field, 0) + SumField(S \ {u}, field)

DistrictOf(u) == Get(schools_data[u], "district_name", Unknown)

BlockOf(u) == Get(schools_data[u], "block_name", Unknown)

Attributed == { u \in DOMAIN schools_data : DistrictOf(u) \notin { <<>>, Unknown } }

\* C10: in the aggregates the parser returns, total_schools is the number of
\* merged records attributed to the group, whichever fields they carry,
\* total_students, total_teachers and water_count are the plain sums over
\* those records,
\* schools_with_data never exceeds total_schools, and every attributed record
\* belongs to a district and a block of the result.
C10_CountsAndSums ==
    last.call = "get_aggregated_data" =>
        /\ \A d \in Range(last.result.districts) :
               LET S == { u \in Attributed : DistrictOf(u) = d.district_name }
               IN  /\ d.total_schools = Cardinality(S)
                   /\ d.total_students = SumField(S, "total_students")
                   /\ d.total_teachers = SumField(S, "total_teachers")
                   /\ d.water_count =
                          Cardinality({ u \in S : Get(schools_data[u], "water_available", FALSE) })
                   /\ d.schools_with_data <= d.total_schools
        /\ \A b \in Range(last.result.blocks) :
               LET S == { u \in Attributed : /\ DistrictOf(u) = b.district_name
                                             /\ BlockOf(u) = b.block_name }
               IN  /\ b.total_schools = Cardinality(S)
                   /\ b.total_students = SumField(S, "total_students")
                   /\ b.schools_with_data <= b.total_schools
        /\ \A u \in Attributed :
               /\ \E d \in Range(last.result.districts) : d.district_name = DistrictOf(u)
               /\ \E b \in Range(last.result.blocks) :
                      b.district_name = DistrictOf(u) /\ b.block_name = BlockOf(u)

\* C10 witness: a district aggregate of two schools, one of them without an
\* Aadhaar percentage, with students counted.
C10_Witness ==
    /\ last.call = "get_aggregated_data"
    /\ \E d \in Range(last.result.districts) :
           /\ d.total_schools = 2
           /\ d.schools_with_data = 1
           /\ d.total_students > 0

\* The mean, rounded to one decimal, of a rate over the records of S that
\* carry a value for it, 0.0 included; 0.0 when none does.
MeanRate(S, field) ==
    LET have == { u \in S : field \in DOMAIN schools_data[u] }
    IN  IF have = {} THEN 0 ELSE RoundRatio(SumField(have, field), Cardinality(have))

\* C11: in the aggregates the parser returns, aadhaar_percentage and
\* apaar_percentage are each the unweighted mean of that rate over the
\* attributed records that have a value for that same rate, a rate of 0.0
\* counting as a value.
C11_UnweightedMean ==
    last.call = "get_aggregated_data" =>
        /\ \A d \in Range(last.result.districts) :
               LET S == { u \in Attributed : DistrictOf(u) = d.district_name }
               IN  /\ d.aadhaar_percentage = MeanRate(S, "aadhaar_percentage")
                   /\ d.apaar_percentage = MeanRate(S, "apaar_percentage")
        /\ \A b \in Range(last.result.blocks) :
               LET S == { u \in Attributed : /\ DistrictOf(u) = b.district_name
                                             /\ BlockOf(u) = b.block_name }
               IN  /\ b.aadhaar_percentage = MeanRate(S, "aadhaar_percentage")
                   /\ b.apaar_percentage = MeanRate(S, "apaar_percentage")

\* The summary documents the pipeline run has written.
SummaryDocs == { x \in Range(db["districts"]) \cup Range(db["blocks"]) : x.gen = "new" }

\* C12: no district or block aggregate is produced with an empty or 'Unknown'
\* district name: a record without a usable district name is in no rollup.
C12_NoUnattributedAggregate ==
    \A x \in SummaryDocs : x.district_name \notin { <<>>, Unknown }

(***************************************************************************)
(* Properties of the helper functions.                                     *)
(***************************************************************************)
ShiFunctions == { "calculate_shi", "block_shi_value", "etl_shi_score" }

\* C13: every School Health Index computed, for a school, a block or a
\* district summary, lies in [0, 100].
C13_ScoreBounded ==
    ret.fn \in ShiFunctions => (0 <= ret.result /\ ret.result <= 1000)

RagFunctions == { "get_rag_status", "get_rag", "etl_rag_status", "analytics_rag_status" }

\* A band whatever the letter case it is written in.
BandOf(status) ==
    CASE status \in { "green", "Green" } -> "green"
      [] status \in { "amber", "Amber" } -> "amber"
      [] OTHER -> "red"

\* C14: whichever place derives the status band of a score, every other place
\* derives the same band for that score.
C14_OneThresholdTable ==
    ret.fn \in RagFunctions =>
        LET score == ret.args[1]
        IN  /\ BandOf(ret.result) = BandOf(get_rag_status(score))
            /\ BandOf(ret.result) = BandOf(get_rag(score))
            /\ BandOf(ret.result) = BandOf(etl_rag_status(score))
            /\ BandOf(ret.result) = BandOf(analytics_rag_status(score))

RECURSIVE SumWeights(_)
SumWeights(w) == IF w = <<>> THEN 0 ELSE Head(w) + SumWeights(Tail(w))

CompositeFunctions == ShiFunctions \cup { "executive_shi" }

RateFunctions == { "percentage", "exception_rate", "generation_rate", "completion_pct" }

\* C16: every derived rate is round(numerator / max(denominator, 1) * 100, 1),
\* the denominator floored at 1, whatever the numerator and the denominator.
C16_RateFloorsDenominator ==
    ret.fn \in RateFunctions =>
        ret.result * 10 = RoundRatio(ret.args[1] * 1000, Max2(ret.args[2], 1)) * ret.unit

\* C17: every derived percentage lies in [0, 100] after rounding, whatever
\* the non-negative numerator and denominator.
C17_RateBounded ==
    ret.fn \in RateFunctions => (0 <= ret.result /\ ret.result <= 100 * ret.unit)

CoercionFunctions ==
    { "etl_safe_int", "etl_safe_float", "etl_safe_str", "safe_int", "safe_float", "safe_str" }

\* C18: no coercion function raises, whatever its input.
C18_CoercionNeverRaises ==
    ret.fn \in CoercionFunctions => ~ret.raised

\* What the conversion to an integer is to return for a value: 0 for a missing
\* or empty one, the leading digit of a '<digit>-<label>' text (the digit 2
\* standing for No, hence 0), 1 and 0 for yes and no in any letter case, 0 for
\* a parenthesized placeholder, and otherwise the truncation of the float
\* parse, 0 when there is none.
ToIntOf(val) ==
    LET text == val.v
        f == float_of(val)
    IN  IF isna(val) \/ val = Str(<<>>) THEN 0
        ELSE IF val.t = "str" /\ Len(text) >= 2 /\ IsDigit(text[1]) /\ text[2] = "-"
        THEN IF text[1] = "2" THEN 0 ELSE DigitVal[text[1]]
        ELSE IF val.t = "str" /\ lower(text) = <<"y", "e", "s">> THEN 1
        ELSE IF val.t = "str" /\ lower(text) = <<"n", "o">> THEN 0
        ELSE IF val.t = "str" /\ startswith(text, <<"(">>) /\ endswith(text, <<")">>) THEN 0
        ELSE IF f.kind = "num" THEN trunc(f.tenths) ELSE 0

\* C19: the ETL's conversion to an integer returns, for every value, what the
\* rule above gives.
C19_ToIntRule ==
    ret.fn = "etl_safe_int" => ret.result = ToIntOf(ret.args[1])

\* A cell of the form '(' digits ')'.
ParenDigits(cell) ==
    /\ cell.t = "str"
    /\ Len(cell.v) >= 3
    /\ Head(cell.v) = "("
    /\ cell.v[Len(cell.v)] = ")"
    /\ \A i \in 2..(Len(cell.v) - 1) : IsDigit(cell.v[i])

\* A row one of whose first five cells is of that form.
PlaceholderRow(row) == \E i \in 1..Len(row) : i <= 5 /\ ParenDigits(row[i])

\* C20: the placeholder filter drops a row exactly when one of its first five
\* cells is a string '(' digits ')'.
C20_PlaceholderExactly ==
    /\ ret.fn = "is_placeholder_row" => (ret.result <=> PlaceholderRow(ret.args[1]))
    /\ ret.fn = "enrolment_skip_header" =>
           ret.result = SelectSeq(ret.args[1], LAMBDA row : ~PlaceholderRow(row))

(***************************************************************************)
(* Properties of column resolution.                                        *)
(***************************************************************************)
\* The first column, in the frame's order, whose name contains the alias;
\* no column is <<>>.
RECURSIVE FirstContaining(_, _)
FirstContaining(columns, alias) ==
    IF columns = <<>> THEN <<>>
    ELSE IF contains(Head(columns), alias) THEN <<Head(columns)>>
    ELSE FirstContaining(Tail(columns), alias)

\* The aliases tried in the caller's order: the first alias that some
\* column contains decides.
RECURSIVE ResolvedColumn(_, _)
ResolvedColumn(columns, aliases) ==
    IF aliases = <<>> THEN <<>>
    ELSE IF FirstContaining(columns, Head(aliases)) # <<>>
    THEN FirstContaining(columns, Head(aliases))
    ELSE ResolvedColumn(columns, Tail(aliases))

TextFunctions == { "safe_str_val", "parse_udise", "parse_text_field" }

CountFunctions == { "safe_int_val", "parse_count" }

\* Every cell of the row holds its column's value.
FullRow(fn, row) ==
    \A c \in DOMAIN row :
        row[c] = (IF fn \in TextFunctions THEN TextOf(c) ELSE Num(NumberOf(c)))

\* C21: on a row without missing cells, the value returned for a field is
\* that of the first column whose name contains an alias, the aliases
\* tried in the caller's order, and the default when no column does.
C21_FirstAliasWins ==
    (ret.fn \in TextFunctions \cup CountFunctions /\ FullRow(ret.fn, ret.args[1])) =>
        LET found == ResolvedColumn(ret.args[2], ret.args[3])
        IN  ret.result =
                IF found = <<>> THEN (IF ret.fn \in TextFunctions THEN <<>> ELSE 0)
                ELSE IF ret.fn \in TextFunctions THEN found[1]
                ELSE NumberOf(found[1])

\* The names in another order: p is a permutation of their positions.
Reordered(names, p) == [i \in 1..Len(names) |-> names[p[i]]]

\* How many of the names are columns of the frame.
PresentCount(names, columns) ==
    Cardinality({ i \in 1..Len(names) : in_columns(names[i], columns) })

\* The counting field of a row, by the function that was called.
CountField(fn, row, columns, names) ==
    IF fn = "safe_int_val" THEN safe_int_val_of(row, columns, names)
    ELSE parse_count(row, names)

\* C22: when exactly one of a counting field's aliases is a column of the
\* row, the value of the field is the same for every order of the aliases.
C22_AliasOrderIrrelevant ==
    (ret.fn \in CountFunctions /\ PresentCount(ret.args[3], ret.args[2]) = 1) =>
        \A p \in Permutations(1..Len(ret.args[3])) :
            CountField(ret.fn, ret.args[1], ret.args[2], Reordered(ret.args[3], p)) = ret.result

\* The one alias that is a column stands last among three, and its cell's
\* value is returned.
C22_Witness ==
    /\ ret.fn = "safe_int_val"
    /\ ret.args[3] = <<ColC, ColBA, ColA>>
    /\ ret.args[2] = <<ColA>>
    /\ ret.result = 1

(***************************************************************************)
(* Properties of the roll-up's arithmetic.                                 *)
(***************************************************************************)
\* C23: the aggregates of a district (school count, student sum, mean
\* rate) are the same for every order in which its schools are visited.
C23_VisitOrderIrrelevant ==
    agg.pc = "done" =>
        \A p \in Permutations(1..Len(agg.schools)) :
            district_rollup(Reordered(agg.schools, p)) = agg.result

(***************************************************************************)
(* Properties of the batched loaders.                                      *)
(***************************************************************************)
RECURSIVE Concat(_)
Concat(qs) == IF qs = <<>> THEN <<>> ELSE Head(qs) \o Concat(Tail(qs))

\* C24: the batched loaders write every record exactly once and in source
\* order (the inserts made so far are the records up to the loop's
\* position, and all of them once the loader has finished), every
\* insert_many carries between 1 and batch_size records, and the collection
\* holds exactly what was inserted.
C24_BatchesCoverOnce ==
    loader.pc \in { "insert", "loaded" } =>
        /\ Concat(loader.batches)
              = SubSeq(loader.records, 1, Min2(loader.i, Len(loader.records)))
        /\ db[CollectionOf(loader.d)] = Concat(loader.batches)
        /\ \A k \in 1..Len(loader.batches) :
              Len(loader.batches[k]) \in 1..batch_size
        /\ loader.pc = "loaded" =>
              /\ db[CollectionOf(loader.d)] = loader.records
              /\ stats[loader.d] = Len(loader.records)

\* A loader finished after a full batch and a short last one.
C24_Witness ==
    /\ loader.pc = "loaded"
    /\ Len(loader.records) > batch_size
    /\ Len(loader.batches) >= 2
    /\ Len(loader.batches[1]) = batch_size
    /\ Len(loader.batches[Len(loader.batches)]) < batch_size

(***************************************************************************)
(* Properties of the merged map.                                           *)
(***************************************************************************)
\* The fields a dataset type folds into a school's entry.
FieldsOf(dtype) == DOMAIN row_fields(dtype, CHOOSE r \in ParserRows(dtype) : TRUE)

\* A dataset type is known to have contributed to an entry when the entry
\* holds a field that only this type writes.
Contributed(dtype, entry) ==
    \E f \in FieldsOf(dtype) \cap DOMAIN entry :
        \A other \in ParsedTypes \ {dtype} : f \notin FieldsOf(other)

\* C25: parsing a dataset keeps every entry of the merged map, one per
\* identifier, and leaves unchanged every field of an entry that a dataset
\* of another type contributed earlier.
C25_ParseKeepsOtherFields ==
    [][ last'.call = "parse_excel" =>
          \A u \in DOMAIN schools_data :
              /\ u \in DOMAIN schools_data'
              /\ \A t \in ParsedTypes \ {last'.dtype} :
                    Contributed(t, schools_data[u]) =>
                        \A f \in FieldsOf(t) \cap DOMAIN schools_data[u] :
                            schools_data'[u][f] = schools_data[u][f] ]_vars

(***************************************************************************)
(* Properties of the yes/no codebook.                                      *)
(***************************************************************************)
\* The texts of the convention: "1-...", "2-...", "yes" and "no".
CodedYes(s) == startswith(s, <<"1", "-">>) \/ lower(s) = <<"y", "e", "s">>

CodedNo(s) == startswith(s, <<"2", "-">>) \/ lower(s) = <<"n", "o">>

\* C26: every integer coercion decodes the yes/no convention alike: on a
\* text "1-..." or "yes" the ETL's safe_int and the parser's safe_int
\* return 1, and on "2-..." or "no" they return 0.
C26_OneCodebook ==
    (/\ ret.fn \in { "etl_safe_int", "safe_int" }
     /\ ret.args[1].t = "str"
     /\ CodedYes(ret.args[1].v) \/ CodedNo(ret.args[1].v))
        => ret.result = IF CodedYes(ret.args[1].v) THEN 1 ELSE 0

HoldsRecordsOf(r) ==
    \A u \in Udises, v \in Vals :
        CountIn(coll, u, v) = ProducedCount(target, df[r], u, v)

\* C28: once both import tasks of a collection have completed, whatever the
\* interleaving of their steps, the collection holds exactly the records of
\* one of them: no mixture of the two and no strict subset of either.
C28_OneRunsRecords ==
    (\A r \in Runs : pc[r] = "done") => \E r \in Runs : HoldsRecordsOf(r)

(***************************************************************************)
(* Properties of an import task whose file cannot be read.                 *)
(***************************************************************************)
\* C29: an import task whose read of the file failed has deleted nothing and
\* written nothing; when no other task has got as far as its delete-all, the
\* collection is what it was before the import was requested.
C29_FailedReadChangesNothing ==
    \A r \in Runs :
        pc[r] = "failed" =>
            /\ lost[r] = <<>>
            /\ records_processed[r] = 0
            /\ \A e \in Range(coll) : e.by # r
            /\ (\A q \in Runs \ {r} : pc[q] \in { "idle", "clear", "failed", "killed" })
                   => coll = OldContent

\* A task has failed at its read, the other has not started, and the earlier
\* content is still in the collection.
C29_Witness ==
    \E r \in Runs :
        /\ pc[r] = "failed"
        /\ \A q \in Runs \ {r} : pc[q] = "idle"
        /\ coll = OldContent
        /\ coll # <<>>

(***************************************************************************)
(* Properties of the password reset.                                       *)
(***************************************************************************)
\* How many times a token has changed the password.
ChangesBy(token) == Cardinality({ i \in 1..Len(changed) : changed[i] = token })

\* C30: a reset token changes the password at most once, whether the
\* confirms that present it come one after another or together.
C30_TokenUsedOnce == \A i \in 1..Len(changed) : ChangesBy(changed[i]) <= 1

====
